---- MODULE Spec2Model ----
(***************************************************************************)
(* sEMG hand prosthesis firmware: the FreeRTOS pipeline of src/src/main.c  *)
(* (acquisition -> windowing/DSP -> Random Forest inference -> temporal    *)
(* voting -> servo notification) and the Random Forest classifier of the   *)
(* embedded implementation guide (src/unnamed/part_005).                   *)
(*                                                                         *)
(* Sixteen specifications share the variables:                                *)
(*   Spec     the data path of main.c: DMA callbacks, EMG_AcquisitionTask, *)
(*            DSP_ProcessingTask, ML_InferenceTask,                        *)
(*   SpecCmd  the same with the EMG:START / EMG:STOP commands of           *)
(*            System_MonitorTask, over a shorter sample stream,            *)
(*   SpecSys  SpecCmd with the other writes of System_MonitorTask to       *)
(*            system_state (DEBUG:ON / DEBUG:OFF, battery and temperature),*)
(*   SpecWin  DSP_ProcessingTask alone, fed a gap-free sample stream,      *)
(*   SpecML   ML_InferenceTask alone, fed feature vectors of any levels,   *)
(*   SpecAct  ML_InferenceTask and Servo_ControlTask, which it notifies,   *)
(*   SpecRF   one call of RF_Predict, one loop iteration per step, on      *)
(*            models and feature vectors drawn from bounded sets,          *)
(*   SpecLoad the call of RF_LoadModel in main(), on serialized models     *)
(*            drawn from a bounded set,                                    *)
(*   SpecBoot the load followed, when it succeeds, by inference cycles,    *)
(*   SpecDsp  the feature extractor applied to drawn spectra and windows,  *)
(*   SpecTree the same call on the trees of the pipeline's Ensemble,       *)
(*   SpecMain main() from its first initialization call on,                *)
(*   SpecServo Servo_ControlTask alone, notified at any moment,            *)
(*   SpecInfo ML_InferenceTask and the SYS:INFO? report of the monitor,    *)
(*   SpecFix  the fixed-point conversions and normalize_feature applied to *)
(*            operands drawn from a bounded set,                           *)
(*   SpecVote Voting_AddPrediction and Voting_GetMajority called on a      *)
(*            voting buffer with (class, confidence) pairs of any values.  *)
(***************************************************************************)
EXTENDS Integers, Sequences, FiniteSets, TLC

(***************************************************************************)
(* Program constants                                                       *)
(***************************************************************************)
\* main.c: #define WINDOW_SIZE 256U
WINDOW_SIZE == 256
\* main.c: #define WINDOW_OVERLAP 128U
WINDOW_OVERLAP == 128
\* main.c: #define EMG_SAMPLE_RATE 1000U
EMG_SAMPLE_RATE == 1000
\* main.c: xQueueCreate(4, sizeof(EMG_Buffer_t))
EMG_QUEUE_LENGTH == 4
\* main.c: xQueueCreate(2, sizeof(Feature_Vector_t))
FEATURE_QUEUE_LENGTH == 2
\* main.c: if (final_confidence > 70)
CONFIDENCE_THRESHOLD == 70
\* main.c: window_buffer[WINDOW_SIZE][4]
N_CHANNELS == 4
\* emg_acquisition.h: EMG_Sample_t samples[256]
EMG_BUFFER_CAPACITY == 256
\* main.c: uint8_t current_positions[6]
DSP_FFT_SIZE == 64
DSP_SAMPLE_RATE == 1000
FEATURE_CAPACITY == 30
N_SERVOS == 6
\* main.c: for (uint8_t step = 0; step < 10; step++), delta / 10
SERVO_STEPS == 10
\* servo_control.h
SERVO_MIN_ANGLE == 0
SERVO_MAX_ANGLE == 180
SERVO_CENTER_ANGLE == 90
GESTURE_CLOSED_FIST == 1
\* random_forest.h
FIXED_POINT_FRACTIONAL_BITS == 8
RF_MAX_TREES == 15
RF_MAX_NODES_PER_TREE == 63
RF_MAX_FEATURES == 30
RF_MAX_CLASSES == 29
RF_NODE_IS_LEAF == 128
RF_NODE_CLASS_MASK == 127
\* implementation guide: MAX_NODES_PER_TREE 63 "allows 6-level deep trees"
RF_MAX_DEPTH == 6
\* VotingBuffer_t: predictions[3], confidences[3]
VOTING_SIZE == 3

(***************************************************************************)
(* Bounds of the model                                                     *)
(***************************************************************************)
\* nodes stored per tree in the trees SpecRF draws
MaxNodes == 2
\* loop iterations of one RF_TreePredict call that SpecRF follows
StepCap == 8
\* samples the ADC delivers in a run of Spec
MaxSamples == 1024
\* samples fed to DSP_ProcessingTask in a run of SpecWin
MaxWinSamples == 700
\* EMG:START / EMG:STOP commands in a run of SpecCmd
MaxCommands == 3
\* samples the ADC delivers in a run of SpecCmd
MaxCmdSamples == 256
\* feature vectors fed to ML_InferenceTask in a run of SpecML
MaxVectors == 4
\* SpecVote: Voting_AddPrediction calls
MaxInsertions == 4
MaxPower == 2
MaxNotifications == 3
\* raw (float) grid points per Q8.8 quantization step
FloatRes == 4

(***************************************************************************)
(* Integer helpers (C arithmetic)                                          *)
(***************************************************************************)
Pow2(n) == 2 ^ n

\* conversion to int16_t (two's complement wrap)
ToInt16(x) == LET m == x % 65536 IN IF m >= 32768 THEN m - 65536 ELSE m

\* conversion to uint8_t
ToUint8(x) == x % 256

\* C integer division: truncation toward zero
TruncDiv(a, b) == IF a >= 0 THEN a \div b ELSE -((-a) \div b)

\* x >> n on a signed 32-bit value: arithmetic shift
ShiftRight(x, n) == x \div Pow2(n)

FIXED_POINT_SCALE == Pow2(FIXED_POINT_FRACTIONAL_BITS)

(***************************************************************************)
(* Q8.8 fixed point. A float is an integer k standing for                  *)
(* k / (FloatRes * FIXED_POINT_SCALE).                                     *)
(***************************************************************************)
\* (fixed_point_t)((x) * FIXED_POINT_SCALE + 0.5f): the cast truncates toward zero
FLOAT_TO_FIXED(k) == ToInt16(TruncDiv(2 * k + FloatRes, 2 * FloatRes))

\* (float)(x) / FIXED_POINT_SCALE, on the float grid
FIXED_TO_FLOAT(x) == x * FloatRes

\* (variant: the product divided by the scale, which rounds toward zero)
fixed_mul_Divided(a, b) == ToInt16(TruncDiv(a * b, FIXED_POINT_SCALE))

\* int32_t temp = (int32_t)a * (int32_t)b; |temp| <= 2^30: no overflow
fixed_mul(a, b) == ToInt16(ShiftRight(a * b, FIXED_POINT_FRACTIONAL_BITS))

\* the argument fixed_raw - offset is converted to fixed_point_t at the call
normalize_feature(raw_value, scale, offset) ==
    LET fixed_raw == FLOAT_TO_FIXED(raw_value)
    IN  fixed_mul(ToInt16(fixed_raw - offset), scale)

(***************************************************************************)
(* Random Forest: RF_Node_t, RF_Tree_t, RF_Model_t                         *)
(***************************************************************************)
RF_Internal(f, thr, l, r) ==
    [feature_idx |-> f, node_type |-> 0, threshold |-> thr,
     left_child |-> l, right_child |-> r]

RF_Leaf(c) ==
    [feature_idx |-> 0, node_type |-> RF_NODE_IS_LEAF + c, threshold |-> 0,
     left_child |-> 0, right_child |-> 0]

\* node->node_type & 0x80
RF_IsLeaf(node) == (node.node_type \div RF_NODE_IS_LEAF) % 2 = 1

\* node->node_type & 0x7F
RF_ClassLabel(node) == node.node_type % (RF_NODE_CLASS_MASK + 1)

\* (variant: a feature equal to the threshold goes right)
RF_Branch_Strict(node, fval) ==
    IF fval < node.threshold THEN node.left_child ELSE node.right_child

\* features[node->feature_idx] <= node->threshold ? left_child : right_child
RF_Branch(node, fval) ==
    IF fval <= node.threshold THEN node.left_child ELSE node.right_child

\* (variant: the root taken one slot further)
RF_TreeRoot_OneBased(tree) == tree.root_idx + 1

\* uint8_t node_idx = tree->root_idx;
RF_TreeRoot(tree) == tree.root_idx

\* a slot of nodes[63] that no initializer fills holds zeros
RF_ZeroNode == RF_Internal(0, 0, 0, 0)

\* const RF_Node_t* node = &tree->nodes[node_idx];
RF_ReadNode(tree, node_idx) ==
    IF node_idx \in DOMAIN tree.nodes THEN tree.nodes[node_idx] ELSE RF_ZeroNode

\* if (node_idx >= tree->n_nodes) return 0;
RF_ChildOutOfRange(tree, child) == child >= tree.n_nodes

\* the value RF_TreePredict returns when the safety check fires
RF_DEFAULT_CLASS == 0

\* votes[prediction]++ under if (prediction < model->n_classes)
RF_CountVote(votes, prediction, n_classes) ==
    IF prediction < n_classes
    THEN [votes EXCEPT ![prediction] = ToUint8(@ + 1)]
    ELSE votes

\* uint8_t votes[29] = {0}
RF_NoVotes == [c \in 0..(RF_MAX_CLASSES - 1) |-> 0]

\* (variant: a class with as many votes as the best so far replaces it)
RECURSIVE RF_Scan_LastWins(_, _, _, _, _)
RF_Scan_LastWins(votes, n_classes, c, best_class, max_votes) ==
    IF c >= n_classes THEN [best_class |-> best_class, max_votes |-> max_votes]
    ELSE IF votes[c] >= max_votes
         THEN RF_Scan_LastWins(votes, n_classes, c + 1, c, votes[c])
         ELSE RF_Scan_LastWins(votes, n_classes, c + 1, best_class, max_votes)

\* Step 3 of RF_Predict: the scan for (best_class, max_votes), c = from..n_classes-1
RECURSIVE RF_Scan(_, _, _, _, _)
RF_Scan(votes, n_classes, c, best_class, max_votes) ==
    IF c >= n_classes THEN [best_class |-> best_class, max_votes |-> max_votes]
    ELSE IF votes[c] > max_votes
         THEN RF_Scan(votes, n_classes, c + 1, c, votes[c])
         ELSE RF_Scan(votes, n_classes, c + 1, best_class, max_votes)

\* (variant: the percentage taken of n_classes)
RF_Tally_OfClasses(votes, n_classes, n_trees) ==
    LET best == RF_Scan(votes, n_classes, 0, 0, 0)
    IN  [class |-> best.best_class,
         confidence |-> ToUint8(TruncDiv(best.max_votes * 100, n_classes))]

\* (variant: the percentage rounded to the nearest integer)
RF_Tally_Rounded(votes, n_classes, n_trees) ==
    LET best == RF_Scan(votes, n_classes, 0, 0, 0)
    IN  [class |-> best.best_class,
         confidence |-> ToUint8(TruncDiv(2 * best.max_votes * 100 + n_trees,
                                         2 * n_trees))]

\* (variant: the class starts as n_classes, "none", and stays so when no vote
\* was counted)
RF_Tally_NoneFound(votes, n_classes, n_trees) ==
    LET best == RF_Scan(votes, n_classes, 0, n_classes, 0)
    IN  [class |-> best.best_class,
         confidence |-> ToUint8(TruncDiv(best.max_votes * 100, n_trees))]

\* Steps 3 and 4 of RF_Predict: *confidence = (max_votes * 100) / model->n_trees
RF_Tally(votes, n_classes, n_trees) ==
    LET best == RF_Scan(votes, n_classes, 0, 0, 0)
    IN  [class |-> best.best_class,
         confidence |-> ToUint8(TruncDiv(best.max_votes * 100, n_trees))]

\* (variant: each call recalibrates the offsets in place)
RF_ModelAfterPredict_Recalibrated(model) ==
    [model EXCEPT !.feature_offset = [i \in DOMAIN @ |-> ToInt16(@[i] + 1)]]

\* RF_Predict(const RF_Model_t* model, ...) has no assignment through model;
\* its writes go to normalized_features, votes and *confidence: the Ensemble
\* after the call
RF_ModelAfterPredict(model) == model

\* Step 1 of RF_Predict: normalized_features[i], i < n_features
RF_Normalize(model, raw_features) ==
    [i \in 0..(model.n_features - 1) |->
        normalize_feature(raw_features[i], model.feature_scale[i],
                          model.feature_offset[i])]

\* RF_TreePredict on a tree whose root is stored and whose feature indices are
\* normalized: the class returned, or RF_NO_RETURN when the loop has not
\* returned after fuel further iterations (no leaf carries that label)
RF_NO_RETURN == RF_NODE_CLASS_MASK + 1
RECURSIVE RF_Walk(_, _, _, _)
RF_Walk(tree, features, node_idx, fuel) ==
    LET node == RF_ReadNode(tree, node_idx)
    IN  IF RF_IsLeaf(node) THEN RF_ClassLabel(node)
        ELSE LET child == RF_Branch(node, features[node.feature_idx])
             IN  IF RF_ChildOutOfRange(tree, child) THEN RF_DEFAULT_CLASS
                 ELSE IF fuel = 0 THEN RF_NO_RETURN
                 ELSE RF_Walk(tree, features, child, fuel - 1)

RF_TreePredict(tree, features) ==
    RF_Walk(tree, features, RF_TreeRoot(tree), tree.n_nodes)

\* Step 2 of RF_Predict: the votes after trees t..n_trees-1
RECURSIVE RF_Votes(_, _, _, _)
RF_Votes(model, features, t, votes) ==
    IF t >= model.n_trees THEN votes
    ELSE RF_Votes(model, features, t + 1,
                  RF_CountVote(votes, RF_TreePredict(model.trees[t], features),
                               model.n_classes))

RF_Predict(model, raw_features) ==
    RF_Tally(RF_Votes(model, RF_Normalize(model, raw_features), 0, RF_NoVotes),
             model.n_classes, model.n_trees)

(***************************************************************************)
(* Temporal voting: Voting_AddPrediction, Voting_GetMajority               *)
(***************************************************************************)
\* VotingBuffer_t voting_buffer = {0}
Voting_Empty ==
    [predictions |-> [i \in 0..(VOTING_SIZE - 1) |-> 0],
     confidences |-> [i \in 0..(VOTING_SIZE - 1) |-> 0],
     write_idx |-> 0, count |-> 0]

\* (variant: write_idx stops advancing once the buffer is full)
Voting_AddPrediction_NoWrap(buffer, prediction, confidence) ==
    [predictions |-> [buffer.predictions EXCEPT ![buffer.write_idx] = prediction],
     confidences |-> [buffer.confidences EXCEPT ![buffer.write_idx] = confidence],
     write_idx |-> IF buffer.count < VOTING_SIZE
                   THEN (buffer.write_idx + 1) % VOTING_SIZE ELSE buffer.write_idx,
     count |-> IF buffer.count < VOTING_SIZE THEN buffer.count + 1 ELSE buffer.count]

Voting_AddPrediction(buffer, prediction, confidence) ==
    [predictions |-> [buffer.predictions EXCEPT ![buffer.write_idx] = prediction],
     confidences |-> [buffer.confidences EXCEPT ![buffer.write_idx] = confidence],
     write_idx |-> (buffer.write_idx + 1) % VOTING_SIZE,
     count |-> IF buffer.count < VOTING_SIZE THEN buffer.count + 1 ELSE buffer.count]

\* (variant: every buffered entry weighs 1)
Voting_Weight_Unweighted(buffer, c) ==
    Cardinality({i \in 0..(buffer.count - 1) : buffer.predictions[i] = c})

\* weighted_votes[c] after the loop over the buffered entries (uint16_t sums)
Voting_Weight(buffer, c) ==
    LET RECURSIVE Sum(_)
        Sum(i) == IF i >= buffer.count THEN 0
                  ELSE (IF buffer.predictions[i] = c THEN buffer.confidences[i] ELSE 0)
                       + Sum(i + 1)
    IN  Sum(0) % 65536

Voting_TotalWeight(buffer) ==
    LET RECURSIVE Sum(_)
        Sum(i) == IF i >= buffer.count THEN 0 ELSE buffer.confidences[i] + Sum(i + 1)
    IN  Sum(0) % 65536

\* (variant: a class as heavy as the best so far replaces it)
RECURSIVE Voting_Scan_LastWins(_, _, _, _)
Voting_Scan_LastWins(buffer, c, best_class, max_weight) ==
    IF c >= RF_MAX_CLASSES THEN [best_class |-> best_class, max_weight |-> max_weight]
    ELSE IF Voting_Weight(buffer, c) >= max_weight
         THEN Voting_Scan_LastWins(buffer, c + 1, c, Voting_Weight(buffer, c))
         ELSE Voting_Scan_LastWins(buffer, c + 1, best_class, max_weight)

\* the scan for (best_class, max_weight) over c = 0..28
RECURSIVE Voting_Scan(_, _, _, _)
Voting_Scan(buffer, c, best_class, max_weight) ==
    IF c >= RF_MAX_CLASSES THEN [best_class |-> best_class, max_weight |-> max_weight]
    ELSE IF Voting_Weight(buffer, c) > max_weight
         THEN Voting_Scan(buffer, c + 1, c, Voting_Weight(buffer, c))
         ELSE Voting_Scan(buffer, c + 1, best_class, max_weight)

\* (variant: the value reported is the mean confidence of the winner's entries)
Voting_GetMajority_MeanConfidence(buffer) ==
    IF buffer.count = 0
    THEN [class |-> 0, written |-> FALSE, final_confidence |-> 0]
    ELSE LET best == Voting_Scan(buffer, 0, 0, 0)
             entries == {i \in 0..(buffer.count - 1) :
                            buffer.predictions[i] = best.best_class}
         IN  IF Voting_TotalWeight(buffer) > 0
             THEN [class |-> best.best_class, written |-> TRUE,
                   final_confidence |->
                       ToUint8(TruncDiv(best.max_weight, Cardinality(entries)))]
             ELSE [class |-> best.best_class, written |-> FALSE,
                   final_confidence |-> 0]

\* Voting_GetMajority: the class returned, whether *final_confidence was written,
\* and the value written (predictions are < 29 here, as RF_Predict returns them)
Voting_GetMajority(buffer) ==
    IF buffer.count = 0
    THEN [class |-> 0, written |-> FALSE, final_confidence |-> 0]
    ELSE LET best == Voting_Scan(buffer, 0, 0, 0)
             total_weight == Voting_TotalWeight(buffer)
         IN  IF total_weight > 0
             THEN [class |-> best.best_class, written |-> TRUE,
                   final_confidence |->
                       ToUint8(TruncDiv(best.max_weight * 100, total_weight))]
             ELSE [class |-> best.best_class, written |-> FALSE,
                   final_confidence |-> 0]

(***************************************************************************)
(* State                                                                   *)
(***************************************************************************)
VARIABLES
    \* --- the loaded Ensemble (extern const RF_Model_t rf_model)
    rf_model,
    loader,          \* main()'s position around RF_LoadModel, its status, and
                     \* (history) the serialized model it was given
    \* --- one call of a function on drawn operands: the operands and the result
    unit,
    \* --- one RF_Predict call followed iteration by iteration (SpecRF)
    rf_input,        \* raw_features of the call
    rf,              \* locals of RF_Predict / RF_TreePredict and the position
    rf_trace,        \* history: what the call has read so far
    \* --- acquisition
    emgReadySem,     \* binary semaphore given by the DMA callbacks
    dma_buffer,      \* samples the DMA has ready for EMG_ReadBuffer
    next_sample,     \* number of samples the ADC has delivered so far
    sample_count,    \* EMG_AcquisitionTask local
    emgDataQueue,
    \* --- DSP
    emg_level,       \* environment: the muscle activity the electrodes pick up
    window_buffer, window_idx,
    featureQueue,
    \* --- inference
    voting_buffer,
    ml_cycle,        \* locals of the last completed ML_InferenceTask iteration
    servo_notify,    \* notification state of the servo task; sent (history)
                     \* counts the xTaskNotify calls
    voter,           \* history: the pairs given to Voting_AddPrediction, and
                     \* what the last Voting_GetMajority call left its caller
    servo,           \* locals of Servo_ControlTask, its position, and the
                     \* angles last given to Servo_SetAngle
    monitor,         \* System_MonitorTask: where it is in the SYS:INFO? report,
                     \* what it has read, and the line it printed last
    \* --- shared
    system_state,
    \* --- history variables (not in the program)
    hist

rfVars == <<rf_input, rf, rf_trace>>
acqVars == <<emgReadySem, dma_buffer, next_sample, sample_count, emgDataQueue>>
dspVars == <<emg_level, window_buffer, window_idx, featureQueue>>
mlVars == <<voting_buffer, ml_cycle, servo_notify, voter, servo>>
vars ==
    <<rf_model, loader, unit, rfVars, acqVars, dspVars, mlVars, monitor, system_state,
      hist>>

(***************************************************************************)
(* FreeRTOS primitives as main.c uses them                                 *)
(***************************************************************************)
\* portMAX_DELAY is (TickType_t)0xffffffff: all ones, written -1 here
portMAX_DELAY == 0 - 1

\* xQueueSend(queue, &item, ticks) returns at once unless the queue is full and
\* ticks is portMAX_DELAY (then the caller stays blocked until there is room)
xQueueSendReturns(queue, length, ticks) ==
    Len(queue) < length \/ ticks # portMAX_DELAY

\* (variant: the item is stored whether or not the queue is full)
xQueueSend_Unbounded(queue, length, item) == Append(queue, item)

\* pdTRUE: the item was copied to the back of the queue; a full queue is left as
\* it is and errQUEUE_FULL is returned (the item passed is the one not stored)
\* (variant: eSetValueWithoutOverwrite, a pending value is kept)
xTaskNotify_WithoutOverwrite(notify, value, waiting) ==
    [notify EXCEPT !.pending = TRUE,
                   !.value = IF notify.pending THEN @ ELSE value,
                   !.sent = @ + 1,
                   !.last = <<value>>,
                   !.at_wait = IF notify.pending THEN @ ELSE waiting]

\* xTaskNotify(servoTaskHandle, value, eSetValueWithOverwrite): the value is
\* stored whether or not one is pending. waiting (history): the servo task is
\* in xTaskNotifyWait
xTaskNotify(notify, value, waiting) ==
    LET lost == notify.pending /\ notify.value # value
    IN  [notify EXCEPT
            !.pending = TRUE,
            !.value = value,
            !.sent = @ + 1,
            !.last = <<value>>,
            !.at_wait = waiting,
            !.lost_waiting = IF lost /\ notify.at_wait THEN @ + 1 ELSE @,
            !.lost_moving = IF lost /\ ~notify.at_wait THEN @ + 1 ELSE @]

\* (variant: the newest item is taken)
xQueueReceive_Newest(queue) ==
    [item |-> queue[Len(queue)], rest |-> SubSeq(queue, 1, Len(queue) - 1)]

\* xQueueReceive(queue, &item, portMAX_DELAY) on a queue that holds an item:
\* the oldest item is copied out and removed
xQueueReceive(queue) == [item |-> Head(queue), rest |-> Tail(queue)]

xQueueSendOk(queue, length) == Len(queue) < length

xQueueSend(queue, length, item) ==
    IF xQueueSendOk(queue, length) THEN Append(queue, item) ELSE queue

\* (variant: the acquisition task waits for room)
EMG_SEND_TICKS_Blocking == portMAX_DELAY

\* ticks to wait of the two sends: xQueueSend(emgDataQueue, &emg_buffer, 0) and
\* xQueueSend(featureQueue, &features, 0)
EMG_SEND_TICKS == 0
\* (variant: the DSP task waits for room in featureQueue)
FEATURE_SEND_TICKS_Blocking == portMAX_DELAY
FEATURE_SEND_TICKS == 0

(***************************************************************************)
(* Samples, buffers, windows                                               *)
(***************************************************************************)
\* The n-th sample the ADC delivers is written n. EMG_Sample_t.data[ch] of it:
EMG_SampleData(sample, ch) == sample * N_CHANNELS + ch

\* EMG_ConvertToVoltage (declared in emg_acquisition.h): a per-reading scaling,
\* kept apart from the raw reading
EMG_ConvertToVoltage(raw_value) == <<raw_value>>

\* EMG_Buffer_t holding n consecutive samples from sample first on
EMG_Buffer(first, n) == [first |-> first, n_samples |-> n]

\* emg_buffer.samples[i]
EMG_BufferSample(buffer, i) == buffer.first + i

\* sizes of the buffers the DMA callbacks hand over in Spec
DmaSizes == {128}

\* sizes of the buffers fed in SpecWin
WinSizes == {64, 100, 128, 255, 256}

Rows == 0..(WINDOW_SIZE - 1)
Channels == 0..(N_CHANNELS - 1)

\* float window_buffer[WINDOW_SIZE][4], not initialized
Uninit == <<>>
WindowUninit == [r \in Rows |-> [ch \in Channels |-> Uninit]]

\* window_buffer[window_idx][ch] = EMG_ConvertToVoltage(samples[i].data[ch]), ch = 0..3
WindowRow(sample) ==
    [ch \in Channels |-> EMG_ConvertToVoltage(EMG_SampleData(sample, ch))]

\* the sample a row was written from
RowSample(row) == row[0][1] \div N_CHANNELS

\* (variant: the rows are moved from one row too early)
WindowShift_OneRowEarly(wb) ==
    [r \in Rows |-> IF r < WINDOW_OVERLAP THEN wb[r + WINDOW_OVERLAP - 1] ELSE wb[r]]

\* memmove(window_buffer, &window_buffer[WINDOW_OVERLAP], WINDOW_OVERLAP * 4 * sizeof(float))
WindowShift(wb) ==
    [r \in Rows |-> IF r < WINDOW_OVERLAP THEN wb[r + WINDOW_OVERLAP] ELSE wb[r]]

(***************************************************************************)
(* The Ensemble the pipeline runs, and the feature vectors of its windows  *)
(***************************************************************************)
Arr(seq) == [i \in 0..(Len(seq) - 1) |-> seq[i + 1]]

Q8_8(whole) == whole * FIXED_POINT_SCALE
Float(whole) == whole * FIXED_POINT_SCALE * FloatRes

\* tree i votes class 0 for x <= i, class 1 for i < x <= 6, and carries the
\* label 2 for x > 6
PipelineTree(i) ==
    [nodes |-> Arr(<<RF_Internal(0, Q8_8(i), 1, 2), RF_Leaf(0),
                     RF_Internal(0, Q8_8(6), 3, 4), RF_Leaf(1), RF_Leaf(2)>>),
     n_nodes |-> 5, root_idx |-> 0]

\* 5 trees over 1 feature and 2 classes; label 2 is >= n_classes, so a vote
\* for it is not counted
PipelineModel ==
    [trees |-> [t \in 0..4 |-> PipelineTree(t + 1)],
     n_trees |-> 5, n_features |-> 1, n_classes |-> 2,
     feature_scale |-> Arr(<<Q8_8(1)>>), feature_offset |-> Arr(<<0>>)]

\* The muscle activity levels of the model: with PipelineModel, a window at
\* level 2 is classified (0, 80), at level 3 (0, 60), at level 4 (1, 60), and at
\* level 9 no tree's vote is counted: (0, 0)
EmgLevels == {2, 3, 4, 9}

\* the lowest level: the one of Spec, SpecCmd and SpecWin
RestLevel == CHOOSE l \in EmgLevels : \A m \in EmgLevels : l <= m

\* The rows of the window handed to the extractor that go through the filter:
\* channel_data = emg_data[:, ch]; filtered = signal.filtfilt(b, a, channel_data)
\* takes every row, and starts each call from its own initial conditions
DSP_FilteredRows == Rows

\* DSP_ExtractFeatures is declared in dsp_pipeline.h only. The values it computes
\* for a window are those of the level at which the window was recorded;
\* window_no (history) numbers the windows
DSP_ExtractFeatures(window, level, window_no) ==
    [values |-> Arr(<<Float(level)>>), n_features |-> PipelineModel.n_features,
     window_no |-> window_no]

(***************************************************************************)
(* Initial state of the pipeline (main.c, after main() has created the     *)
(* queues and the tasks)                                                   *)
(***************************************************************************)
\* (the uint32_t counters of stats stay far below 2^32 within the bounds)
SystemStateInit ==
    [mode |-> "MODE_IDLE", error_code |-> "ERROR_NONE",
     current_gesture |-> 0, gesture_confidence |-> 0,
     battery_voltage |-> 0, temperature |-> 25, debug_enabled |-> FALSE,
     stats |-> [emg_sample_rate |-> 0, dsp_processing_time |-> 0,
                ml_inference_time |-> 0, total_predictions |-> 0,
                dropped_samples |-> 0]]

\* history: what was passed to the sends, what the DSP task has processed, the
\* commands received; stop_mark is the number of samples delivered when EMG:STOP
\* last switched the mode from MODE_ACTIVE to MODE_IDLE, restart_mark that number
\* when EMG:START first came after it (NoMark: not yet)
NoMark == 0 - 1
HistInit ==
    [emg_sent |-> 0, last_emg_sent |-> <<>>, emg_send_failed |-> 0,
     emg_received |-> 0, dsp_samples |-> 0, write_oob |-> FALSE,
     idx_after_window |-> <<>>, windows |-> 0, last_window |-> <<>>, prev_window |-> <<>>,
     last_feat_sent |-> <<>>, feat_send_failed |-> 0,
     commands |-> 0, stop_mark |-> NoMark, restart_mark |-> NoMark,
     writers |-> {}, pair_vote |-> 0]

\* history: the fields of system_state that task assigns in a step
SysWrites(task, fields) == {<<f, task>> : f \in fields}

MlCycleInit ==
    [n |-> 0, features |-> <<>>, prediction |-> 0, confidence |-> 0,
     gesture_class |-> 0, final_confidence |-> 0, written |-> FALSE,
     notified |-> FALSE]

VoterInit == [inserted |-> <<>>, result |-> <<>>]

\* history of a Voting_AddPrediction(buffer, prediction, confidence) call
Voter_Inserted(v, prediction, confidence) ==
    [inserted |-> Append(v.inserted, <<prediction, confidence>>), result |-> <<>>]

\* history of gesture_class = Voting_GetMajority(buffer, &final_confidence):
\* the class returned and the caller's final_confidence after the call
Voter_Returned(v, gesture_class, final_confidence, written) ==
    [v EXCEPT !.result = <<[class |-> gesture_class,
                            final_confidence |-> final_confidence,
                            written |-> written]>>]

\* no function call is followed
UnitIdle == [op |-> "none"]

\* main() before the call of RF_LoadModel
LoaderInit == [pc |-> "boot", status |-> <<>>, blob |-> <<>>]

Servos == 0..(N_SERVOS - 1)

\* Servo_ControlTask before its first iteration: current_positions = {90, ...},
\* gesture_class and target_positions not initialised, no angle commanded yet
\* (a value v once written is held as <<v>>)
ServoInit ==
    [pc |-> "wait", gesture_class |-> Uninit,
     current_positions |-> [i \in Servos |-> SERVO_CENTER_ANGLE],
     target_positions |-> Uninit, step |-> 0, angle |-> Uninit]

RfIdle == [pc |-> "idle"]
RfTraceInit == [node_oob |-> FALSE, feat_oob |-> FALSE, bad_child |-> FALSE,
                iterations |-> 0, predictions |-> <<>>]

\* the notification state of the servo task: nothing pending. History: sent,
\* the number of notifications; last, the gesture notified last; at_wait,
\* whether the pending one was sent while the servo task waited; lost_waiting
\* and lost_moving, the notifications of another gesture that were overwritten
\* unreceived, by where the servo task was when they were sent
NotifyInit ==
    [pending |-> FALSE, value |-> 0, sent |-> 0, last |-> <<>>, at_wait |-> FALSE,
     lost_waiting |-> 0, lost_moving |-> 0]

MonitorInit == [pc |-> "idle", read |-> <<>>, printed |-> <<>>]

TasksInit ==
    /\ emgReadySem = FALSE
    /\ dma_buffer = EMG_Buffer(0, 0)
    /\ next_sample = 0
    /\ sample_count = 0
    /\ emgDataQueue = <<>>
    /\ emg_level = RestLevel
    /\ window_buffer = WindowUninit
    /\ window_idx = 0
    /\ featureQueue = <<>>
    /\ voting_buffer = Voting_Empty
    /\ ml_cycle = MlCycleInit
    /\ servo_notify = NotifyInit
    /\ voter = VoterInit
    /\ servo = ServoInit
    /\ monitor = MonitorInit
    /\ system_state = SystemStateInit
    /\ hist = HistInit

PipelineInit == TasksInit /\ loader = LoaderInit

\* no RF_Predict call is followed
RfInit ==
    /\ rf_model = PipelineModel
    /\ rf_input = <<>>
    /\ rf = RfIdle
    /\ rf_trace = RfTraceInit
    /\ unit = UnitIdle

Init == RfInit /\ PipelineInit

(***************************************************************************)
(* Acquisition: the DMA callbacks and EMG_AcquisitionTask                  *)
(***************************************************************************)
\* EMG_DMA_HalfCompleteCallback / EMG_DMA_CompleteCallback: n more samples are
\* ready and emgReadySem is given; the acquisition task (priority 5) runs
\* before the next callback
EMG_DMA_Callback ==
    /\ ~emgReadySem
    /\ \E n \in DmaSizes :
         /\ next_sample + n <= MaxSamples
         /\ dma_buffer' = EMG_Buffer(next_sample, n)
         /\ next_sample' = next_sample + n
    /\ emgReadySem' = TRUE
    /\ UNCHANGED <<monitor, rf_model, loader, unit, rfVars, sample_count, emgDataQueue, dspVars, mlVars,
                   system_state, hist>>

\* (variant: the counter counts every buffer sent)
EMG_DroppedAfterSend_EverySend(dropped_samples, sent) == dropped_samples + 1

\* if (xQueueSend(...) != pdTRUE) system_state.stats.dropped_samples++;
EMG_DroppedAfterSend(dropped_samples, sent) ==
    IF sent THEN dropped_samples ELSE dropped_samples + 1

\* one iteration of the task's loop in which xSemaphoreTake returned pdTRUE
\* (an iteration that times out changes nothing)
EMG_AcquisitionTask ==
    /\ emgReadySem
    /\ xQueueSendReturns(emgDataQueue, EMG_QUEUE_LENGTH, EMG_SEND_TICKS)
    /\ emgReadySem' = FALSE
    /\ LET emg_buffer == dma_buffer
           sent == xQueueSendOk(emgDataQueue, EMG_QUEUE_LENGTH)
           count1 == sample_count + 1
           dropped1 == EMG_DroppedAfterSend(system_state.stats.dropped_samples, sent)
       IN  /\ emgDataQueue' = xQueueSend(emgDataQueue, EMG_QUEUE_LENGTH, emg_buffer)
           /\ sample_count' = IF count1 >= EMG_SAMPLE_RATE THEN 0 ELSE count1
           /\ system_state' =
                [system_state EXCEPT
                    !.stats.dropped_samples = dropped1,
                    !.stats.emg_sample_rate =
                        IF count1 >= EMG_SAMPLE_RATE THEN count1 ELSE @]
           /\ hist' = [hist EXCEPT
                    !.emg_sent = @ + 1,
                    !.last_emg_sent = <<emg_buffer>>,
                    !.emg_send_failed = IF sent THEN @ ELSE @ + 1,
                    !.writers = @ \cup SysWrites("EMG_AcquisitionTask",
                        (IF sent THEN {} ELSE {"stats.dropped_samples"}) \cup
                        (IF count1 >= EMG_SAMPLE_RATE
                         THEN {"stats.emg_sample_rate"} ELSE {}))]
    /\ UNCHANGED <<monitor, rf_model, loader, unit, rfVars, dma_buffer, next_sample, dspVars, mlVars>>

(***************************************************************************)
(* DSP_ProcessingTask                                                      *)
(***************************************************************************)
\* (variant: the DSP task counts each window in stats.total_predictions)
DSP_WrittenFields_CountingWindows(window_done, send_failed) ==
    IF window_done THEN {"stats.dsp_processing_time", "stats.total_predictions"}
    ELSE {}

\* the fields of system_state DSP_ProcessingTask assigns while it takes in one
\* buffer: stats.dsp_processing_time after each complete window
DSP_WrittenFields(window_done, send_failed) ==
    IF window_done THEN {"stats.dsp_processing_time"} ELSE {}

\* (variant: the window is taken one sample late)
DSP_WindowComplete_Late(idx) == idx > WINDOW_SIZE

\* if (window_idx >= WINDOW_SIZE)
DSP_WindowComplete(idx) == idx >= WINDOW_SIZE

\* (variant: the index is left where it is when the window is shifted)
DSP_IndexAfterShift_Kept == WINDOW_SIZE

\* window_idx = WINDOW_OVERLAP;
DSP_IndexAfterShift == WINDOW_OVERLAP

\* The body of the loop over emg_buffer.samples[i], for one i. d holds the
\* task's locals, featureQueue and the history.
DSP_AddSample(buffer, i, d) ==
    LET wb1 == [d.window_buffer EXCEPT
                   ![d.window_idx] = WindowRow(EMG_BufferSample(buffer, i))]
        idx1 == d.window_idx + 1
        oob1 == d.write_oob \/ d.window_idx >= WINDOW_SIZE
    IN  IF DSP_WindowComplete(idx1)
        THEN LET features == DSP_ExtractFeatures(wb1, emg_level, d.windows + 1)
                 sent == xQueueSendOk(d.featureQueue, FEATURE_QUEUE_LENGTH)
             IN  [window_buffer |-> WindowShift(wb1),
                  window_idx |-> DSP_IndexAfterShift,
                  write_oob |-> oob1,
                  idx_after_window |-> <<DSP_IndexAfterShift>>,
                  featureQueue |-> xQueueSend(d.featureQueue,
                                              FEATURE_QUEUE_LENGTH, features),
                  windows |-> d.windows + 1,
                  last_window |-> wb1,
                  prev_window |-> d.last_window,
                  last_feat_sent |-> <<features>>,
                  feat_send_failed |-> IF sent THEN d.feat_send_failed
                                       ELSE d.feat_send_failed + 1]
        ELSE [d EXCEPT !.window_buffer = wb1, !.window_idx = idx1,
                       !.write_oob = oob1]

\* The loop for i = from..to-1, in order (split in halves to keep the
\* evaluation shallow)
RECURSIVE DSP_AddSamples(_, _, _, _)
DSP_AddSamples(buffer, from, to, d) ==
    IF from >= to THEN d
    ELSE IF to = from + 1 THEN DSP_AddSample(buffer, from, d)
    ELSE LET mid == (from + to) \div 2
             d1 == DSP_AddSamples(buffer, from, mid, d)
         IN  \* window_idx is never negative: the test only makes the first
             \* half's result be computed before the second half starts
             IF d1.window_idx >= 0 THEN DSP_AddSamples(buffer, mid, to, d1)
             ELSE d1

DSP_Locals ==
    [window_buffer |-> window_buffer, window_idx |-> window_idx,
     featureQueue |-> featureQueue,
     write_oob |-> hist.write_oob, idx_after_window |-> hist.idx_after_window,
     windows |-> hist.windows, last_window |-> hist.last_window,
     prev_window |-> hist.prev_window, last_feat_sent |-> hist.last_feat_sent,
     feat_send_failed |-> hist.feat_send_failed]

\* one iteration of the task's loop: xQueueReceive(emgDataQueue, ..., portMAX_DELAY)
\* returns a buffer, and the buffer is processed to its end. A step takes no
\* time: HAL_GetTick() - start_tick is 0.
DSP_ProcessingTask ==
    /\ emgDataQueue # <<>>
    /\ xQueueSendReturns(featureQueue, FEATURE_QUEUE_LENGTH, FEATURE_SEND_TICKS)
    /\ LET emg_buffer == Head(emgDataQueue)
           d == DSP_AddSamples(emg_buffer, 0, emg_buffer.n_samples, DSP_Locals)
       IN  /\ emgDataQueue' = Tail(emgDataQueue)
           /\ window_buffer' = d.window_buffer
           /\ window_idx' = d.window_idx
           /\ featureQueue' = d.featureQueue
           /\ system_state' =
                  [system_state EXCEPT
                      !.stats.dsp_processing_time =
                          IF d.windows > hist.windows THEN 0 ELSE @]
           /\ hist' = [hist EXCEPT
                  !.emg_received = @ + 1,
                  !.dsp_samples = @ + emg_buffer.n_samples,
                  !.write_oob = d.write_oob,
                  !.idx_after_window = d.idx_after_window,
                  !.windows = d.windows,
                  !.last_window = d.last_window,
                  !.prev_window = d.prev_window,
                  !.last_feat_sent = d.last_feat_sent,
                  !.feat_send_failed = d.feat_send_failed,
                  !.writers = @ \cup SysWrites("DSP_ProcessingTask",
                      DSP_WrittenFields(d.windows > hist.windows,
                                        d.feat_send_failed > hist.feat_send_failed))]
    /\ UNCHANGED <<monitor, rf_model, loader, unit, rfVars, emgReadySem, dma_buffer, next_sample,
                   sample_count, emg_level, mlVars>>

(***************************************************************************)
(* ML_InferenceTask                                                        *)
(***************************************************************************)
\* uint8_t final_confidence; is declared without an initializer: when
\* Voting_GetMajority does not write it, the value compared is indeterminate
\* (these values stand for 0..255: both sides of the one comparison made)
UninitUint8 == {0, 70, 71, 255}

\* (variant: no gate)
ConfidenceSufficient_Always(final_confidence) == final_confidence >= 0

\* (variant: the threshold itself is accepted)
ConfidenceSufficient_AtLeast(final_confidence) ==
    final_confidence >= CONFIDENCE_THRESHOLD

\* if (final_confidence > 70)
ConfidenceSufficient(final_confidence) == final_confidence > CONFIDENCE_THRESHOLD

\* (variant: the majority is taken before the vote is recorded)
ML_Majority_BeforeVote(before, after) == Voting_GetMajority(before)

\* Voting_AddPrediction(&voting_buffer, ...) comes before
\* Voting_GetMajority(&voting_buffer, ...): the majority is that of the buffer
\* after the vote was recorded
ML_Majority(before, after) == Voting_GetMajority(after)

\* one iteration of the task's loop: xQueueReceive(featureQueue, ..., portMAX_DELAY)
\* returns a feature vector; classify, vote, gate, notify. A step takes no
\* time: HAL_GetTick() - start_tick is 0.
ML_InferenceTask ==
    /\ featureQueue # <<>>
    /\ LET received == xQueueReceive(featureQueue)
           features == received.item
           predicted == RF_Predict(rf_model, features.values)
           buffer1 == Voting_AddPrediction(voting_buffer, predicted.class,
                                           predicted.confidence)
           majority == ML_Majority(voting_buffer, buffer1)
           gesture_class == majority.class
       IN  \E final_confidence \in (IF majority.written
                                    THEN {majority.final_confidence}
                                    ELSE UninitUint8) :
             LET sufficient == ConfidenceSufficient(final_confidence)
             IN  /\ featureQueue' = received.rest
                 /\ voting_buffer' = buffer1
                 /\ system_state' =
                      [system_state EXCEPT
                         !.current_gesture = IF sufficient THEN gesture_class ELSE @,
                         !.gesture_confidence =
                             IF sufficient THEN final_confidence ELSE @,
                         !.stats.ml_inference_time = 0,
                         !.stats.total_predictions = @ + 1]
                 \* xTaskNotify(servoTaskHandle, gesture_class, eSetValueWithOverwrite)
                 /\ servo_notify' =
                      IF sufficient
                      THEN xTaskNotify(servo_notify, gesture_class,
                                       servo.pc = "wait")
                      ELSE servo_notify
                 /\ voter' = Voter_Returned(
                                Voter_Inserted(voter, predicted.class,
                                               predicted.confidence),
                                gesture_class, final_confidence, majority.written)
                 /\ ml_cycle' =
                      [n |-> ml_cycle.n + 1, features |-> <<features>>,
                       prediction |-> predicted.class,
                       confidence |-> predicted.confidence,
                       gesture_class |-> gesture_class,
                       final_confidence |-> final_confidence,
                       written |-> majority.written, notified |-> sufficient]
                 /\ rf_model' = RF_ModelAfterPredict(rf_model)
                 /\ hist' = [hist EXCEPT
                        !.pair_vote = IF sufficient THEN ml_cycle.n + 1 ELSE @,
                        !.writers = @ \cup SysWrites("ML_InferenceTask",
                            {"stats.ml_inference_time", "stats.total_predictions"}
                              \cup (IF sufficient
                                    THEN {"current_gesture", "gesture_confidence"}
                                    ELSE {}))]
    /\ UNCHANGED <<monitor, loader, unit, rfVars, acqVars, emg_level, window_buffer,
                   window_idx, servo>>

(***************************************************************************)
(* Servo_ControlTask                                                       *)
(***************************************************************************)
\* Servo_GetGesturePositions(gesture_id, positions): the closed fist flexes
\* every servo, any other gesture extends every servo
Servo_GetGesturePositions(gesture_id) ==
    [i \in Servos |-> IF gesture_id = GESTURE_CLOSED_FIST
                      THEN SERVO_MAX_ANGLE ELSE SERVO_MIN_ANGLE]

\* int16_t delta = target - current; current += delta / 10 (uint8_t)
Servo_Interpolate(current, target) ==
    ToUint8(current + TruncDiv(target - current, SERVO_STEPS))

\* xTaskNotifyWait(0, 0xFFFFFFFF, &gesture_class, pdMS_TO_TICKS(20)) == pdTRUE:
\* a notification is pending; its value is taken and cleared, the target
\* positions are looked up
Servo_NotifyReceived ==
    /\ servo.pc = "wait"
    /\ servo_notify.pending
    /\ servo' = [servo EXCEPT
                   !.pc = "move", !.step = 0,
                   !.gesture_class = <<servo_notify.value>>,
                   !.target_positions =
                       <<Servo_GetGesturePositions(servo_notify.value)>>]
    /\ servo_notify' = [servo_notify EXCEPT !.pending = FALSE, !.value = 0]
    /\ UNCHANGED <<monitor, rf_model, loader, unit, rfVars, acqVars, dspVars, voting_buffer, ml_cycle,
                   voter, system_state, hist>>

\* one step of the smooth transition: every servo moves a tenth of what is
\* left and is commanded, then vTaskDelay(20 ms)
Servo_TransitionStep ==
    /\ servo.pc = "move"
    /\ servo.step < SERVO_STEPS
    /\ LET positions == [i \in Servos |->
                            Servo_Interpolate(servo.current_positions[i],
                                              servo.target_positions[1][i])]
       IN  servo' = [servo EXCEPT !.current_positions = positions,
                                  !.angle = <<positions>>,
                                  !.step = @ + 1]
    /\ UNCHANGED <<monitor, rf_model, loader, unit, rfVars, acqVars, dspVars, voting_buffer, ml_cycle,
                   servo_notify, voter, system_state, hist>>

\* after the tenth step: memcpy(current_positions, target_positions, 6)
Servo_TransitionEnd ==
    /\ servo.pc = "move"
    /\ servo.step >= SERVO_STEPS
    /\ servo' = [servo EXCEPT !.pc = "wait",
                              !.current_positions = servo.target_positions[1]]
    /\ UNCHANGED <<monitor, rf_model, loader, unit, rfVars, acqVars, dspVars, voting_buffer, ml_cycle,
                   servo_notify, voter, system_state, hist>>

\* xTaskNotifyWait times out (no notification within 20 ms): every servo is
\* commanded its current position
Servo_Timeout ==
    /\ servo.pc = "wait"
    /\ ~servo_notify.pending
    /\ servo' = [servo EXCEPT !.angle = <<servo.current_positions>>]
    /\ UNCHANGED <<monitor, rf_model, loader, unit, rfVars, acqVars, dspVars, voting_buffer, ml_cycle,
                   servo_notify, voter, system_state, hist>>

Servo_ControlTask ==
    \/ Servo_NotifyReceived
    \/ Servo_TransitionStep
    \/ Servo_TransitionEnd
    \/ Servo_Timeout

(***************************************************************************)
(* System_MonitorTask: the EMG:START and EMG:STOP commands                 *)
(***************************************************************************)
Monitor_EMG_START ==
    /\ hist.commands < MaxCommands
    /\ system_state' = [system_state EXCEPT !.mode = "MODE_ACTIVE"]
    /\ hist' = [hist EXCEPT
                  !.commands = @ + 1,
                  !.writers = @ \cup SysWrites("System_MonitorTask", {"mode"}),
                  !.restart_mark = IF hist.stop_mark # NoMark /\ @ = NoMark
                                   THEN next_sample ELSE @]
    /\ UNCHANGED <<monitor, rf_model, loader, unit, rfVars, acqVars, dspVars, mlVars>>

Monitor_EMG_STOP ==
    /\ hist.commands < MaxCommands
    /\ system_state' = [system_state EXCEPT !.mode = "MODE_IDLE"]
    /\ hist' = [hist EXCEPT !.commands = @ + 1,
                            !.writers =
                                @ \cup SysWrites("System_MonitorTask", {"mode"}),
                            !.stop_mark =
                                IF system_state.mode = "MODE_ACTIVE"
                                THEN next_sample ELSE @,
                            !.restart_mark =
                                IF system_state.mode = "MODE_ACTIVE"
                                THEN NoMark ELSE @]
    /\ UNCHANGED <<monitor, rf_model, loader, unit, rfVars, acqVars, dspVars, mlVars>>

\* the commands DEBUG:ON and DEBUG:OFF
Monitor_DEBUG ==
    /\ hist.commands < MaxCommands
    /\ \E enabled \in BOOLEAN :
          system_state' = [system_state EXCEPT !.debug_enabled = enabled]
    /\ hist' = [hist EXCEPT
                  !.commands = @ + 1,
                  !.writers = @ \cup SysWrites("System_MonitorTask", {"debug_enabled"})]
    /\ UNCHANGED <<monitor, rf_model, loader, unit, rfVars, acqVars, dspVars, mlVars>>

\* readings of Power_GetBatteryVoltage() (V) and Temp_GetCPUTemperature() (C)
BatteryReadings == {5, 7}
TemperatureReadings == {25, 40}

\* the update made every second: battery_voltage and temperature (history: it
\* counts as a command)
Monitor_Update ==
    /\ hist.commands < MaxCommands
    /\ \E volts \in BatteryReadings, degrees \in TemperatureReadings :
          system_state' = [system_state EXCEPT !.battery_voltage = volts,
                                               !.temperature = degrees]
    /\ hist' = [hist EXCEPT
                  !.commands = @ + 1,
                  !.writers = @ \cup SysWrites("System_MonitorTask",
                                               {"battery_voltage", "temperature"})]
    /\ UNCHANGED <<monitor, rf_model, loader, unit, rfVars, acqVars, dspVars, mlVars>>

\* the fields of the "Current Gesture" line of SYS:INFO?: two separate loads
\* from system_state, in an order the compiler chooses, with nothing that keeps
\* ML_InferenceTask (priority 3) from running between them
InfoPair == {"current_gesture", "gesture_confidence"}

\* the first of the two loads; vote (history) is the cycle of ML_InferenceTask
\* that wrote the value
Monitor_INFO_FirstLoad ==
    /\ hist.commands < MaxCommands
    /\ monitor.pc = "idle"
    /\ \E field \in InfoPair :
          monitor' = [monitor EXCEPT
                        !.pc = "info",
                        !.read = <<[field |-> field, value |-> system_state[field],
                                    vote |-> hist.pair_vote]>>]
    /\ UNCHANGED <<rf_model, loader, unit, rfVars, acqVars, dspVars, mlVars,
                   system_state, hist>>

\* the second load, and the printf of the pair
Monitor_INFO_Print ==
    /\ monitor.pc = "info"
    /\ LET first == monitor.read[1]
           field == CHOOSE f \in InfoPair : f # first.field
           second == [field |-> field, value |-> system_state[field],
                      vote |-> hist.pair_vote]
           of(f) == IF first.field = f THEN first ELSE second
       IN  monitor' = [pc |-> "idle", read |-> <<>>,
                       printed |-> <<[current_gesture |-> of("current_gesture").value,
                                      gesture_confidence |->
                                          of("gesture_confidence").value,
                                      gesture_vote |-> of("current_gesture").vote,
                                      confidence_vote |->
                                          of("gesture_confidence").vote]>>]
    /\ hist' = [hist EXCEPT !.commands = @ + 1]
    /\ UNCHANGED <<rf_model, loader, unit, rfVars, acqVars, dspVars, mlVars,
                   system_state>>

(***************************************************************************)
(* The pipeline                                                            *)
(***************************************************************************)
Next ==
    \/ EMG_DMA_Callback
    \/ EMG_AcquisitionTask
    \/ DSP_ProcessingTask
    \/ ML_InferenceTask

Spec == Init /\ [][Next]_vars

(***************************************************************************)
(* The pipeline with the operator's commands, over a shorter stream        *)
(***************************************************************************)
NextCmd ==
    \/ EMG_DMA_Callback /\ next_sample' <= MaxCmdSamples
    \/ EMG_AcquisitionTask
    \/ DSP_ProcessingTask
    \/ ML_InferenceTask
    \/ Monitor_EMG_START
    \/ Monitor_EMG_STOP

SpecCmd == Init /\ [][NextCmd]_vars

(***************************************************************************)
(* SpecSys: every task that writes system_state                            *)
(***************************************************************************)
NextSys ==
    \/ EMG_DMA_Callback /\ next_sample' <= MaxCmdSamples
    \/ EMG_AcquisitionTask
    \/ DSP_ProcessingTask
    \/ ML_InferenceTask
    \/ Monitor_EMG_START
    \/ Monitor_EMG_STOP
    \/ Monitor_DEBUG
    \/ Monitor_Update

SpecSys == Init /\ [][NextSys]_vars

(***************************************************************************)
(* SpecWin: DSP_ProcessingTask alone, fed a gap-free stream of samples in  *)
(* buffers of any of WinSizes                                              *)
(***************************************************************************)
\* the next n samples arrive in one buffer; the task is waiting in xQueueReceive
Win_Feed ==
    /\ emgDataQueue = <<>>
    /\ \E n \in WinSizes :
         /\ next_sample + n <= MaxWinSamples
         /\ emgDataQueue' = <<EMG_Buffer(next_sample, n)>>
         /\ next_sample' = next_sample + n
    /\ UNCHANGED <<monitor, rf_model, loader, unit, rfVars, emgReadySem, dma_buffer, sample_count, dspVars,
                   mlVars, system_state, hist>>

NextWin ==
    \/ Win_Feed
    \/ DSP_ProcessingTask

SpecWin == Init /\ [][NextWin]_vars

(***************************************************************************)
(* SpecML: ML_InferenceTask alone, fed the feature vectors of windows      *)
(* recorded at any levels                                                  *)
(***************************************************************************)
ML_Feed ==
    /\ hist.windows < MaxVectors
    /\ Len(featureQueue) < FEATURE_QUEUE_LENGTH
    /\ \E level \in EmgLevels :
         LET features == DSP_ExtractFeatures(window_buffer, level, hist.windows + 1)
         IN  /\ emg_level' = level
             /\ featureQueue' = Append(featureQueue, features)
             /\ hist' = [hist EXCEPT !.windows = @ + 1,
                                     !.last_feat_sent = <<features>>]
    /\ UNCHANGED <<monitor, rf_model, loader, unit, rfVars, acqVars, window_buffer, window_idx, mlVars,
                   system_state>>

NextML ==
    \/ ML_Feed
    \/ ML_InferenceTask

SpecML == Init /\ [][NextML]_vars

\* ML_InferenceTask blocks in xQueueReceive(featureQueue, ..., portMAX_DELAY)
\* only; the tasks of higher priority block between two buffers, so that the
\* scheduler runs it whenever featureQueue holds a vector. This is
\* WF_vars(ML_InferenceTask), with ENABLED <<ML_InferenceTask>>_vars written as
\* the condition under which xQueueReceive returns.
SpecMLFair ==
    SpecML /\ ([]<>(featureQueue = <<>>) \/ []<><<ML_InferenceTask>>_vars)

(***************************************************************************)
(* SpecAct: ML_InferenceTask and Servo_ControlTask, the feature vectors    *)
(* being those of windows recorded at two levels: one classified (0, 60),  *)
(* the other (1, 60)                                                       *)
(***************************************************************************)
ActLevels == {3, 4}

Act_Feed ==
    /\ hist.windows < MaxVectors
    /\ Len(featureQueue) < FEATURE_QUEUE_LENGTH
    /\ \E level \in ActLevels :
         LET features == DSP_ExtractFeatures(window_buffer, level, hist.windows + 1)
         IN  /\ emg_level' = level
             /\ featureQueue' = Append(featureQueue, features)
             /\ hist' = [hist EXCEPT !.windows = @ + 1,
                                     !.last_feat_sent = <<features>>]
    /\ UNCHANGED <<monitor, rf_model, loader, unit, rfVars, acqVars, window_buffer, window_idx, mlVars,
                   system_state>>

NextAct ==
    \/ Act_Feed
    \/ ML_InferenceTask
    \/ Servo_NotifyReceived
    \/ Servo_TransitionStep
    \/ Servo_TransitionEnd
    \/ Servo_Timeout

SpecAct == Init /\ [][NextAct]_vars

(***************************************************************************)
(* SpecInfo: ML_InferenceTask fed windows at the levels of InfoLevels,     *)
(* and System_MonitorTask answering SYS:INFO?                              *)
(***************************************************************************)
\* level 4 is classified (1, 60) and level 2 (0, 80): after one window at level
\* 4 and two at level 2 the vote changes from class 1 to class 0
InfoLevels == {2, 4}

Info_Feed ==
    /\ hist.windows < MaxVectors
    /\ Len(featureQueue) < FEATURE_QUEUE_LENGTH
    /\ \E level \in InfoLevels :
         LET features == DSP_ExtractFeatures(window_buffer, level, hist.windows + 1)
         IN  /\ emg_level' = level
             /\ featureQueue' = Append(featureQueue, features)
             /\ hist' = [hist EXCEPT !.windows = @ + 1,
                                     !.last_feat_sent = <<features>>]
    /\ UNCHANGED <<monitor, rf_model, loader, unit, rfVars, acqVars, window_buffer,
                   window_idx, mlVars, system_state>>

NextInfo ==
    \/ Info_Feed
    \/ ML_InferenceTask
    \/ Monitor_INFO_FirstLoad
    \/ Monitor_INFO_Print

SpecInfo == Init /\ [][NextInfo]_vars

(***************************************************************************)
(* SpecServo: Servo_ControlTask alone, notified of any of ServoGestures at *)
(* any moment                                                              *)
(***************************************************************************)
ServoGestures == {0, GESTURE_CLOSED_FIST, 2}

\* ML_InferenceTask's xTaskNotify(servoTaskHandle, gesture_class, ...)
Servo_Notify ==
    /\ servo_notify.sent < MaxNotifications
    /\ \E gesture_class \in ServoGestures :
          servo_notify' = xTaskNotify(servo_notify, gesture_class, servo.pc = "wait")
    /\ UNCHANGED <<monitor, rf_model, loader, unit, rfVars, acqVars, dspVars, voting_buffer,
                   ml_cycle, voter, servo, system_state, hist>>

NextServo ==
    \/ Servo_Notify
    \/ Servo_NotifyReceived
    \/ Servo_TransitionStep
    \/ Servo_TransitionEnd
    \/ Servo_Timeout

SpecServo == Init /\ [][NextServo]_vars

(***************************************************************************)
(* SpecRF: one RF_Predict call, followed one loop iteration at a time, on  *)
(* an Ensemble and a feature vector drawn from the sets below (Ensembles   *)
(* that break the data-model invariants included)                          *)
(***************************************************************************)
RfSlots == 0..(MaxNodes - 1)

\* child indices: those stored, and one past them
RfChildren == 0..MaxNodes

\* leaves of two classes, internal nodes on feature 0 with any children, and an
\* internal node on feature 1 (no drawn Ensemble has a feature 1)
RfNodeChoices ==
    {RF_Leaf(0), RF_Leaf(1)}
      \cup {RF_Internal(0, Q8_8(1), l, r) : l \in RfChildren, r \in RfChildren}
      \cup {RF_Internal(1, Q8_8(1), MaxNodes - 1, MaxNodes - 1)}

\* n_nodes nodes of any content, the root at slot 0 or 1
RfTrees ==
    {[nodes |-> [i \in RfSlots |-> IF i < n THEN ns[i] ELSE RF_ZeroNode],
      n_nodes |-> n, root_idx |-> r] :
        ns \in [RfSlots -> RfNodeChoices], n \in 1..MaxNodes, r \in 0..1}

RfStump == [nodes |-> [i \in RfSlots |-> RF_Leaf(1)], n_nodes |-> 1, root_idx |-> 0]

\* one drawn tree, followed by none, one or two trees that always vote class 1
RfModels ==
    {[trees |-> [t \in 0..2 |-> IF t = 0 THEN tr ELSE RfStump],
      n_trees |-> nt, n_features |-> 1, n_classes |-> nc,
      feature_scale |-> Arr(<<Q8_8(1)>>), feature_offset |-> Arr(<<0>>)] :
        tr \in RfTrees, nt \in 1..3, nc \in 1..2}

\* the all-zero vector and one above the threshold
RfInputs == {Arr(<<Float(0)>>), Arr(<<Float(2)>>)}

\* an element of fixed_point_t normalized_features[30] that Step 1 did not
\* write is indeterminate (these two values stand for all: one on each side of
\* the comparison with a threshold)
UninitFixed == {0 - Pow2(15), Pow2(15) - 1}

InitRF ==
    /\ rf_model \in RfModels
    /\ rf_input \in RfInputs
    /\ rf = RfIdle
    /\ rf_trace = RfTraceInit
    /\ unit = UnitIdle
    /\ PipelineInit

\* RF_Predict is entered: Step 1, and votes[29] = {0}
RF_PredictBegin ==
    /\ rf.pc = "idle"
    /\ rf' = [pc |-> "trees", features |-> RF_Normalize(rf_model, rf_input),
              t |-> 0, votes |-> RF_NoVotes, node_idx |-> 0]
    /\ UNCHANGED <<monitor, rf_model, loader, unit, rf_input, rf_trace, acqVars, dspVars, mlVars,
                   system_state, hist>>

\* Step 2, t < n_trees: RF_TreePredict(&model->trees[t], ...) is entered
RF_TreePredictCall ==
    /\ rf.pc = "trees"
    /\ rf.t < rf_model.n_trees
    /\ rf' = [rf EXCEPT !.pc = "node",
                        !.node_idx = RF_TreeRoot(rf_model.trees[rf.t])]
    /\ rf_trace' = [rf_trace EXCEPT !.iterations = 0]
    /\ UNCHANGED <<monitor, rf_model, loader, unit, rf_input, acqVars, dspVars, mlVars, system_state, hist>>

\* RF_TreePredict returns prediction to Step 2: the vote, and t++
RF_Return(prediction) ==
    [rf EXCEPT !.pc = "trees",
               !.votes = RF_CountVote(@, prediction, rf_model.n_classes),
               !.t = @ + 1]

\* history: the value RF_TreePredict returned for each tree so far
RF_Returned(trace, prediction) ==
    [trace EXCEPT !.predictions = Append(@, prediction)]

\* one iteration of while (1) in RF_TreePredict. iterations counts them up to
\* StepCap.
RF_TreePredictStep ==
    /\ rf.pc = "node"
    /\ LET tree == rf_model.trees[rf.t]
           node == RF_ReadNode(tree, rf.node_idx)
           trace1 == [rf_trace EXCEPT
                        !.node_oob = @ \/ rf.node_idx >= tree.n_nodes,
                        !.iterations = IF @ < StepCap THEN @ + 1 ELSE @]
       IN  IF RF_IsLeaf(node)
           THEN /\ rf' = RF_Return(RF_ClassLabel(node))
                /\ rf_trace' = RF_Returned(trace1, RF_ClassLabel(node))
           ELSE \E fval \in (IF node.feature_idx < rf_model.n_features
                             THEN {rf.features[node.feature_idx]}
                             ELSE UninitFixed) :
                  LET child == RF_Branch(node, fval)
                      bad == RF_ChildOutOfRange(tree, child)
                  IN  /\ rf' = IF bad THEN RF_Return(RF_DEFAULT_CLASS)
                               ELSE [rf EXCEPT !.node_idx = child]
                      /\ rf_trace' =
                           LET trace2 ==
                                 [trace1 EXCEPT
                                    !.feat_oob = @ \/ node.feature_idx >= rf_model.n_features,
                                    !.bad_child = @ \/ bad]
                           IN  IF bad THEN RF_Returned(trace2, RF_DEFAULT_CLASS)
                               ELSE trace2
    /\ UNCHANGED <<monitor, rf_model, loader, unit, rf_input, acqVars, dspVars, mlVars, system_state, hist>>

\* Steps 3 and 4, after the last tree
RF_PredictEnd ==
    /\ rf.pc = "trees"
    /\ rf.t >= rf_model.n_trees
    /\ rf' = [pc |-> "done", votes |-> rf.votes,
              result |-> RF_Tally(rf.votes, rf_model.n_classes, rf_model.n_trees)]
    /\ UNCHANGED <<monitor, rf_model, loader, unit, rf_input, rf_trace, acqVars, dspVars, mlVars,
                   system_state, hist>>

NextRF ==
    \/ RF_PredictBegin
    \/ RF_TreePredictCall
    \/ RF_TreePredictStep
    \/ RF_PredictEnd

SpecRF == InitRF /\ [][NextRF]_vars

(***************************************************************************)
(* SpecTree: the same call, on the first trees of the pipeline's Ensemble  *)
(* (two internal nodes, three leaves each) and on feature values below,    *)
(* at and above their thresholds                                           *)
(***************************************************************************)
TreeModels == {[PipelineModel EXCEPT !.n_trees = nt] : nt \in 1..PipelineModel.n_trees}

TreeInputs == {Arr(<<Float(k)>>) : k \in 0..7}

InitTree ==
    /\ rf_model \in TreeModels
    /\ rf_input \in TreeInputs
    /\ rf = RfIdle
    /\ rf_trace = RfTraceInit
    /\ unit = UnitIdle
    /\ PipelineInit

SpecTree == InitTree /\ [][NextRF]_vars

(***************************************************************************)
(* SpecLoad: main() loads the model. The serialized model is an image of   *)
(* RF_Model_t; RF_LoadModel validates it with RF_ValidateModel and         *)
(* installs it as rf_model only when it is valid.                          *)
(***************************************************************************)
\* the drawn models of SpecRF, and each again with its first tree declaring one
\* node more than a tree can hold
LoadBlobs ==
    RfModels \cup
    {[model EXCEPT !.trees[0].n_nodes = RF_MAX_NODES_PER_TREE + 1] : model \in RfModels}

\* (variant: the counts are checked, the child indices are not)
RF_ValidateModel_CountsOnly(model) ==
    /\ model.n_trees <= RF_MAX_TREES
    /\ model.n_features <= RF_MAX_FEATURES
    /\ model.n_classes <= RF_MAX_CLASSES
    /\ \A t \in 0..(model.n_trees - 1) :
          model.trees[t].n_nodes <= RF_MAX_NODES_PER_TREE

\* bool RF_ValidateModel(const RF_Model_t *model): not too many trees, features,
\* classes or nodes, and no child index >= the tree's node count
RF_ValidateModel(model) ==
    /\ model.n_trees <= RF_MAX_TREES
    /\ model.n_features <= RF_MAX_FEATURES
    /\ model.n_classes <= RF_MAX_CLASSES
    /\ \A t \in 0..(model.n_trees - 1) :
          LET tree == model.trees[t]
          IN  /\ tree.n_nodes <= RF_MAX_NODES_PER_TREE
              /\ \A i \in 0..(tree.n_nodes - 1) :
                    LET node == RF_ReadNode(tree, i)
                    IN  RF_IsLeaf(node) \/ (/\ node.left_child < tree.n_nodes
                                            /\ node.right_child < tree.n_nodes)

\* HAL_StatusTypeDef RF_LoadModel(void), called once by main(): a model that
\* RF_ValidateModel rejects is not installed
RF_LoadModelOf(blob) ==
    /\ IF RF_ValidateModel(blob)
       THEN /\ rf_model' = blob
            /\ loader' = [pc |-> "loaded", status |-> <<"HAL_OK">>,
                          blob |-> <<blob>>]
       ELSE /\ rf_model' = rf_model
            /\ loader' = [pc |-> "loaded", status |-> <<"HAL_ERROR">>,
                          blob |-> <<blob>>]
    /\ UNCHANGED <<monitor, unit, rfVars, acqVars, dspVars, mlVars, system_state, hist>>

RF_LoadModel == loader.pc = "boot" /\ \E blob \in LoadBlobs : RF_LoadModelOf(blob)

\* if (RF_LoadModel() != HAL_OK) { printf(...); Error_Handler(); }
Main_LoadFailed ==
    /\ loader.pc = "loaded"
    /\ loader.status # <<"HAL_OK">>
    /\ loader' = [loader EXCEPT !.pc = "Error_Handler"]
    /\ UNCHANGED <<monitor, rf_model, unit, rfVars, acqVars, dspVars, mlVars, system_state, hist>>

\* RF_LoadModel() returned HAL_OK: initialization goes on
Main_LoadDone ==
    /\ loader.pc = "loaded"
    /\ loader.status = <<"HAL_OK">>
    /\ loader' = [loader EXCEPT !.pc = "initialized"]
    /\ UNCHANGED <<monitor, rf_model, unit, rfVars, acqVars, dspVars, mlVars, system_state, hist>>

NextLoad ==
    \/ RF_LoadModel
    \/ Main_LoadFailed
    \/ Main_LoadDone

SpecLoad == Init /\ [][NextLoad]_vars

(***************************************************************************)
(* SpecBoot: main() loads one of a few models; when the load succeeds the  *)
(* scheduler is started and ML_InferenceTask runs on the model loaded      *)
(***************************************************************************)
\* the Ensemble of the pipeline, the same of three trees, and two malformed
\* ones: a tree declaring 64 nodes, a child index equal to the node count
BootBlobs ==
    {PipelineModel,
     [PipelineModel EXCEPT !.n_trees = 3],
     [PipelineModel EXCEPT !.trees[0].n_nodes = RF_MAX_NODES_PER_TREE + 1],
     [PipelineModel EXCEPT !.trees[1].nodes[0].left_child = 5]}

Boot_LoadModel == loader.pc = "boot" /\ \E blob \in BootBlobs : RF_LoadModelOf(blob)

\* vTaskStartScheduler() comes after the initialization: the tasks run only
\* when RF_LoadModel returned HAL_OK
Boot_Feed == loader.pc = "initialized" /\ Act_Feed

Boot_InferenceTask == loader.pc = "initialized" /\ ML_InferenceTask

NextBoot ==
    \/ Boot_LoadModel
    \/ Main_LoadFailed
    \/ Main_LoadDone
    \/ Boot_Feed
    \/ Boot_InferenceTask

SpecBoot == Init /\ [][NextBoot]_vars

(***************************************************************************)
(* SpecMain: main() from its first initialization call to the scheduler,   *)
(* and the tasks once the scheduler runs. EMG_Init, ACC_Init, Servo_Init   *)
(* and the xQueueCreate/xSemaphoreCreateBinary calls are outside the       *)
(* sources: each returns success or failure.                               *)
(***************************************************************************)
\* the initialization calls of main(), in order, up to RF_LoadModel ("boot")
MainHwInits == <<"EMG_Init", "ACC_Init", "Servo_Init", "boot">>

\* (variant: a failed call is reported and main() goes on)
Main_AfterCall_ReportOnly(ok, next) == next

\* if (X != HAL_OK) { printf(...); Error_Handler(); }: where main() is after
\* the call
Main_AfterCall(ok, next) == IF ok THEN next ELSE "Error_Handler"

InitMain ==
    /\ RfInit
    /\ TasksInit
    /\ loader = [LoaderInit EXCEPT !.pc = MainHwInits[1]]

\* EMG_Init, ACC_Init or Servo_Init returns
Main_HwInit ==
    /\ \E i \in 1..(Len(MainHwInits) - 1), ok \in BOOLEAN :
          /\ loader.pc = MainHwInits[i]
          /\ loader' = [loader EXCEPT
                           !.pc = Main_AfterCall(ok, MainHwInits[i + 1]),
                           !.status = <<IF ok THEN "HAL_OK" ELSE "HAL_ERROR">>]
    /\ UNCHANGED <<monitor, rf_model, unit, rfVars, acqVars, dspVars, mlVars, system_state, hist>>

\* the queues and the semaphore are created (or one of the handles is NULL),
\* the tasks are created and vTaskStartScheduler() is called
Main_CreateObjects ==
    /\ loader.pc = "initialized"
    /\ \E ok \in BOOLEAN :
          loader' = [loader EXCEPT
                        !.pc = Main_AfterCall(ok, "scheduler"),
                        !.status = <<IF ok THEN "pdPASS" ELSE "NULL">>]
    /\ UNCHANGED <<monitor, rf_model, unit, rfVars, acqVars, dspVars, mlVars, system_state, hist>>

\* the samples of SpecMain: three DMA buffers, two windows
MaxMainSamples == 384

\* a task or an interrupt runs only under the scheduler started by main();
\* Error_Handler() has no statement that leaves its loop
NextMain ==
    \/ Main_HwInit
    \/ Boot_LoadModel
    \/ Main_LoadFailed
    \/ Main_LoadDone
    \/ Main_CreateObjects
    \/ loader.pc = "scheduler" /\ EMG_DMA_Callback /\ next_sample' <= MaxMainSamples
    \/ loader.pc = "scheduler" /\ EMG_AcquisitionTask
    \/ loader.pc = "scheduler" /\ DSP_ProcessingTask
    \/ loader.pc = "scheduler" /\ ML_InferenceTask
    \/ loader.pc = "scheduler" /\ Servo_ControlTask

SpecMain == InitMain /\ [][NextMain]_vars

(***************************************************************************)
(* SpecFix: FLOAT_TO_FIXED, FIXED_TO_FLOAT and normalize_feature, each     *)
(* applied once to operands drawn from the sets below                      *)
(***************************************************************************)
\* floats: every grid point within three quantization steps of 0, and the
\* whole numbers 2 and -2
FixFloats ==
    ((0 - 3 * FloatRes)..(3 * FloatRes)) \cup {Float(2), Float(0 - 2)}

\* Q8.8 scales: 1/256, 0.5, 1.0, 1.5, -0.5
FixScales == {1, 128, 256, 384, 0 - 128}

\* Q8.8 offsets: 0, 1/256, -1.0
FixOffsets == {0, 1, 0 - 256}

\* Q8.8 operands: 2.5 and 1.5 of Test_FixedPoint, small and negative values,
\* and the ends of the range
FixOperands ==
    {0, 1, 0 - 1, 3, 128, 0 - 128, 255, 384, 640, 0 - 640, 4096,
     Pow2(15) - 1, 0 - Pow2(15)}

InitFix ==
    /\ rf_model = PipelineModel
    /\ rf_input = <<>>
    /\ rf = RfIdle
    /\ rf_trace = RfTraceInit
    /\ PipelineInit
    /\ \/ \E x \in FixFloats, scale \in FixScales, offset \in FixOffsets :
             unit = [op |-> "normalize_feature", raw_value |-> x,
                     scale |-> scale, offset |-> offset, out |-> <<>>]
       \/ \E x \in FixFloats :
             unit = [op |-> "round_trip", raw_value |-> x, out |-> <<>>]
       \/ \E a \in FixOperands, b \in FixOperands :
             unit = [op |-> "fixed_mul", a |-> a, b |-> b, out |-> <<>>]

\* normalized = normalize_feature(raw_value, scale, offset)
Fix_Normalize ==
    /\ unit.op = "normalize_feature"
    /\ unit.out = <<>>
    /\ unit' = [unit EXCEPT
                  !.out = <<normalize_feature(unit.raw_value, unit.scale, unit.offset)>>]
    /\ UNCHANGED <<monitor, rf_model, loader, rfVars, acqVars, dspVars, mlVars, system_state,
                   hist>>

\* fixed = FLOAT_TO_FIXED(test_val); recovered = FIXED_TO_FLOAT(fixed)
Fix_RoundTrip ==
    /\ unit.op = "round_trip"
    /\ unit.out = <<>>
    /\ unit' = [unit EXCEPT
                  !.out = <<FIXED_TO_FLOAT(FLOAT_TO_FIXED(unit.raw_value))>>]
    /\ UNCHANGED <<monitor, rf_model, loader, rfVars, acqVars, dspVars, mlVars, system_state,
                   hist>>

\* result = fixed_mul(a, b)
Fix_Multiply ==
    /\ unit.op = "fixed_mul"
    /\ unit.out = <<>>
    /\ unit' = [unit EXCEPT !.out = <<fixed_mul(unit.a, unit.b)>>]
    /\ UNCHANGED <<monitor, rf_model, loader, rfVars, acqVars, dspVars, mlVars, system_state,
                   hist>>

NextFix ==
    \/ Fix_Normalize
    \/ Fix_RoundTrip
    \/ Fix_Multiply

SpecFix == InitFix /\ [][NextFix]_vars

(***************************************************************************)
(* SpecDsp: the feature extractor (EMGFeatureExtractor of part_005; the    *)
(* firmware's DSP_ExtractFeatures is declared only) applied to spectra and *)
(* windows drawn by Init                                                   *)
(***************************************************************************)
\* signal.stft(filtered, fs, nperseg=64): the one-sided spectrum has
\* nperseg/2 + 1 frequencies f[k] = k * fs / nperseg, 0 Hz to fs/2 included
StftBins == 0..(DSP_FFT_SIZE \div 2)

\* bands = [(0, 50), (50, 150), (150, 250), (250, 500)], in Hz
Bands == <<<<0, 50>>, <<50, 150>>, <<150, 250>>, <<250, 500>>>>

\* np.logical_and(f >= low, f <= high) at bin k; f[k] = k * fs / nperseg is
\* exact in binary floating point, so that the comparison is the one of
\* k * fs with low * nperseg and high * nperseg
InBand(k, low, high) ==
    /\ k * DSP_SAMPLE_RATE >= low * DSP_FFT_SIZE
    /\ k * DSP_SAMPLE_RATE <= high * DSP_FFT_SIZE

RECURSIVE np_sum(_, _)
np_sum(psd, bins) ==
    IF bins = {} THEN 0
    ELSE LET k == CHOOSE b \in bins : TRUE
         IN  psd[k] + np_sum(psd, bins \ {k})

\* _band_power(self, f, psd, low, high)
band_power(psd, low, high) ==
    np_sum(psd, {k \in DOMAIN psd : InBand(k, low, high)})

\* the features appended for one channel, each named by the function that
\* computes it (its value is not modelled, save for the band powers)
ChannelFeatures(ch) ==
    [i \in 1..8 |->
        [channel |-> ch,
         feature |-> <<"rms", "mav", "var", "zc", "ssc", "wl",
                       "mean_frequency", "median_frequency">>[i]]]
    \o [b \in 1..Len(Bands) |->
           [channel |-> ch, feature |-> "band_power", band |-> Bands[b]]]

RECURSIVE extract_channels(_)
extract_channels(n) ==
    IF n = 0 THEN <<>> ELSE extract_channels(n - 1) \o ChannelFeatures(n - 1)

\* extract_features(self, emg_data, acc_data=None): the list returned
extract_features(has_acc) ==
    extract_channels(N_CHANNELS)
    \o (IF has_acc THEN <<[feature |-> "acc_mean"], [feature |-> "acc_std"]>>
        ELSE <<>>)

\* a power spectrum with power at one or two bins
DspSpectra ==
    {[k \in StftBins |-> (IF k = b1 THEN a1 ELSE 0) + (IF k = b2 THEN a2 ELSE 0)] :
        b1 \in StftBins, b2 \in {3, 16, 32}, a1 \in 1..MaxPower, a2 \in 0..1}

InitDsp ==
    /\ rf_model = PipelineModel
    /\ rf_input = <<>>
    /\ rf = RfIdle
    /\ rf_trace = RfTraceInit
    /\ PipelineInit
    /\ \/ \E psd \in DspSpectra :
             unit = [op |-> "band_power", psd |-> psd, out |-> <<>>]
       \/ \E has_acc \in BOOLEAN :
             unit = [op |-> "extract_features", has_acc |-> has_acc, out |-> <<>>]

\* for low, high in bands: features.append(self._band_power(f, power_spectrum, low, high))
Dsp_BandPowers ==
    /\ unit.op = "band_power"
    /\ unit.out = <<>>
    /\ unit' = [unit EXCEPT
                  !.out = <<[b \in 1..Len(Bands) |->
                               band_power(unit.psd, Bands[b][1], Bands[b][2])]>>]
    /\ UNCHANGED <<monitor, rf_model, loader, rfVars, acqVars, dspVars, mlVars, system_state,
                   hist>>

\* features = extractor.extract_features(emg_data, acc_data)
Dsp_ExtractFeatures ==
    /\ unit.op = "extract_features"
    /\ unit.out = <<>>
    /\ unit' = [unit EXCEPT !.out = <<extract_features(unit.has_acc)>>]
    /\ UNCHANGED <<monitor, rf_model, loader, rfVars, acqVars, dspVars, mlVars, system_state,
                   hist>>

NextDsp ==
    \/ Dsp_BandPowers
    \/ Dsp_ExtractFeatures

SpecDsp == InitDsp /\ [][NextDsp]_vars

(***************************************************************************)
(* SpecVote: the temporal voter alone. A caller adds (class, confidence)   *)
(* pairs to a VotingBuffer_t that starts empty, and asks for the majority  *)
(* with a final_confidence variable it has not initialised.                *)
(***************************************************************************)
\* classes given to the voter (none is 0, the initial best_class of the scan)
VoteClasses == {2, 5, 7}

\* confidences given to the voter
VoteConfidences == {0, 50, 90}

\* Voting_AddPrediction(&buffer, prediction, confidence)
Voter_Add ==
    /\ Len(voter.inserted) < MaxInsertions
    /\ \E prediction \in VoteClasses, confidence \in VoteConfidences :
          /\ voting_buffer' = Voting_AddPrediction(voting_buffer, prediction, confidence)
          /\ voter' = Voter_Inserted(voter, prediction, confidence)
    /\ UNCHANGED <<monitor, rf_model, loader, unit, rfVars, acqVars, dspVars, ml_cycle, servo_notify,
                   servo, system_state, hist>>

\* uint8_t final_confidence; gesture_class = Voting_GetMajority(&buffer,
\* &final_confidence)
Voter_GetMajority ==
    /\ voter.result = <<>>
    /\ LET majority == Voting_GetMajority(voting_buffer)
       IN  \E final_confidence \in (IF majority.written
                                    THEN {majority.final_confidence}
                                    ELSE UninitUint8) :
             voter' = Voter_Returned(voter, majority.class, final_confidence,
                                     majority.written)
    /\ UNCHANGED <<monitor, rf_model, loader, unit, rfVars, acqVars, dspVars, voting_buffer, ml_cycle,
                   servo_notify, servo, system_state, hist>>

NextVote ==
    \/ Voter_Add
    \/ Voter_GetMajority

SpecVote == Init /\ [][NextVote]_vars

(***************************************************************************)
(* Properties                                                              *)
(***************************************************************************)
Last(queue) == queue[Len(queue)]

\* C1 (as stated): after a push the queue's newest item is the item pushed
\* last, for emgDataQueue and for featureQueue: a push onto a full queue keeps
\* the new item ("most recent wins").
C1_MostRecentWins ==
    /\ (emgDataQueue # <<>> /\ hist.last_emg_sent # <<>>)
          => Last(emgDataQueue) = hist.last_emg_sent[1]
    /\ (featureQueue # <<>> /\ hist.last_feat_sent # <<>>)
          => Last(featureQueue) = hist.last_feat_sent[1]

\* C2: in every cycle of ML_InferenceTask, xTaskNotify is called (once) if and
\* only if the final confidence of that cycle is strictly greater than 70.
C2_NotifyIffAboveThreshold ==
    [][ml_cycle'.n # ml_cycle.n =>
          /\ ml_cycle'.final_confidence > 70
                => servo_notify'.sent = servo_notify.sent + 1
          /\ ml_cycle'.final_confidence <= 70
                => servo_notify' = servo_notify]_vars

\* C2 witness: after cycles that notified, a cycle whose voted final confidence
\* is exactly 70, ended without a notification
C2_Witness ==
    /\ ml_cycle.n > 0
    /\ ml_cycle.written
    /\ ml_cycle.final_confidence = 70
    /\ ~ml_cycle.notified
    /\ servo_notify.sent > 0

\* C3 (as stated): a prediction during which a traversal selected a child index
\* >= n_nodes returns class 0 with confidence 0.
C3_BadChildFailsClosed ==
    (rf.pc = "done" /\ rf_trace.bad_child)
        => (rf.result.class = 0 /\ rf.result.confidence = 0)

\* the data-model invariants of an Ensemble, as C4 lists them
C4_TreeIndicesValid(model, tree) ==
    /\ tree.n_nodes <= RF_MAX_NODES_PER_TREE
    /\ tree.root_idx < tree.n_nodes
    /\ \A i \in 0..(tree.n_nodes - 1) :
          LET node == tree.nodes[i]
          IN  RF_IsLeaf(node) \/ (/\ node.left_child < tree.n_nodes
                                  /\ node.right_child < tree.n_nodes
                                  /\ node.feature_idx < model.n_features)

\* every path of child links from node i ends in a leaf within fuel links
RECURSIVE C4_EndsInLeaf(_, _, _)
C4_EndsInLeaf(tree, i, fuel) ==
    LET node == tree.nodes[i]
    IN  RF_IsLeaf(node)
          \/ (/\ fuel > 0
              /\ C4_EndsInLeaf(tree, node.left_child, fuel - 1)
              /\ C4_EndsInLeaf(tree, node.right_child, fuel - 1))

C4_ValidEnsemble(model) ==
    /\ 1 <= model.n_trees /\ model.n_trees <= RF_MAX_TREES
    /\ model.n_features <= RF_MAX_FEATURES
    /\ model.n_classes >= 1
    /\ \A t \in 0..(model.n_trees - 1) :
          /\ C4_TreeIndicesValid(model, model.trees[t])
          /\ \A i \in 0..(model.trees[t].n_nodes - 1) :
                C4_EndsInLeaf(model.trees[t], i, model.trees[t].n_nodes)

\* C4: on an Ensemble that satisfies the data-model invariants, for every
\* feature vector, RF_Predict reads no node at an index >= n_nodes and no
\* feature at an index >= n_features, every traversal ends within n_nodes
\* iterations, and the class returned is < n_classes.
C4_ValidEnsembleSafe ==
    C4_ValidEnsemble(rf_model) =>
        /\ ~rf_trace.node_oob
        /\ ~rf_trace.feat_oob
        /\ rf_trace.iterations <= MaxNodes
        /\ rf.pc = "done" => rf.result.class < rf_model.n_classes

\* C4 witness: a finished call on the all-zero vector, on a valid Ensemble of
\* two trees whose first tree has an internal root
C4_Witness ==
    /\ rf.pc = "done"
    /\ C4_ValidEnsemble(rf_model)
    /\ rf_model.n_trees = 2
    /\ ~RF_IsLeaf(rf_model.trees[0].nodes[rf_model.trees[0].root_idx])
    /\ rf_input[0] = 0

\* C5 (as stated): on a tree whose root and child indices are all < n_nodes, a
\* call of RF_TreePredict visits at most max depth + 1 = 7 nodes.
C5_BoundedByMaxDepth ==
    (\A t \in 0..(rf_model.n_trees - 1) :
        LET tree == rf_model.trees[t]
        IN  /\ tree.root_idx < tree.n_nodes
            /\ \A i \in 0..(tree.n_nodes - 1) :
                  /\ tree.nodes[i].left_child < tree.n_nodes
                  /\ tree.nodes[i].right_child < tree.n_nodes)
        => rf_trace.iterations <= RF_MAX_DEPTH + 1

\* C6: whenever the DMA has given emgReadySem, the iteration of
\* EMG_AcquisitionTask that pushes the buffer can run to its end, whatever the
\* two queues hold.
C6_PushNeverBlocks == emgReadySem => ENABLED EMG_AcquisitionTask

\* C6 witness: a buffer is ready while both queues are full
C6_Witness ==
    /\ emgReadySem
    /\ Len(emgDataQueue) = EMG_QUEUE_LENGTH
    /\ Len(featureQueue) = FEATURE_QUEUE_LENGTH

\* C7 (as stated): a step of DSP_ProcessingTask in which windows are discarded
\* (featureQueue full) adds their number to a counter of system_state.stats.
C7_DroppedWindowsCounted ==
    [][hist'.feat_send_failed # hist.feat_send_failed =>
          \E f \in DOMAIN system_state.stats :
              system_state'.stats[f] = system_state.stats[f]
                                         + (hist'.feat_send_failed
                                              - hist.feat_send_failed)]_vars

\* C8: after N consecutive samples from start-up, in buffers of any sizes,
\* DSP_ProcessingTask has completed 0 windows if N < 256 and
\* floor((N - 256) / 128) + 1 windows if N >= 256.
C8_WindowCount ==
    hist.windows = IF hist.dsp_samples < 256 THEN 0
                   ELSE (hist.dsp_samples - 256) \div 128 + 1

\* C8 witness: four windows completed, the stream ending inside a step
C8_Witness ==
    /\ hist.windows = 4
    /\ hist.dsp_samples > 256 + 3 * 128
    /\ hist.dsp_samples % 128 # 0

\* C9: the first 128 rows (4 channels each) of a window passed to
\* DSP_ExtractFeatures are the last 128 rows of the window passed before it.
C9_OverlapShared ==
    hist.prev_window # <<>> =>
        \A r \in 0..127 : \A ch \in 0..3 :
            hist.last_window[r][ch] = hist.prev_window[r + 128][ch]

\* C9 witness: a third window, whose rows are all written and differ
C9_Witness ==
    /\ hist.windows >= 3
    /\ hist.prev_window # <<>>
    /\ hist.last_window[0][0] # hist.last_window[127][3]
    /\ hist.last_window[0][0] # Uninit

\* C10 (as stated): after EMG:STOP and a later EMG:START, no window passed to
\* DSP_ExtractFeatures holds a sample delivered before the stop together with a
\* sample delivered after the restart.
C10_NoWindowAcrossRestart ==
    (hist.restart_mark # NoMark /\ hist.last_window # <<>>) =>
        ~(/\ \E r \in Rows : RowSample(hist.last_window[r]) < hist.stop_mark
          /\ \E r \in Rows : RowSample(hist.last_window[r]) >= hist.restart_mark)

\* C11: the class RF_Predict returns has the largest vote count, no class of
\* lower index has as many votes, and the (class, confidence) returned is the
\* value of the function RF_Predict of the model and the features (whenever
\* every feature the trees read is one Step 1 normalized).
C11_ArgmaxLowestIndex ==
    rf.pc = "done" =>
        LET c == rf.result.class
        IN  /\ \A k \in 0..(rf_model.n_classes - 1) : rf.votes[k] <= rf.votes[c]
            /\ \A k \in 0..(c - 1) : rf.votes[k] < rf.votes[c]
            /\ ~rf_trace.feat_oob => rf.result = RF_Predict(rf_model, rf_input)

\* C11 witness: a finished call in which classes 0 and 1 have one vote each
C11_Witness ==
    /\ rf.pc = "done"
    /\ rf_model.n_classes = 2
    /\ rf.votes[0] = 1
    /\ rf.votes[1] = 1
    /\ rf.result.class = 0

\* the number of trees whose RF_TreePredict returned the class RF_Predict
\* returned
C12_WinningVotes ==
    Cardinality({t \in 1..Len(rf_trace.predictions) :
                    rf_trace.predictions[t] = rf.result.class})

\* C12: the confidence RF_Predict reports is floor(100 * winning_votes /
\* n_trees), winning_votes being the number of trees that voted for the class
\* returned.
C12_ConfidenceIsFloorPercent ==
    rf.pc = "done" =>
        rf.result.confidence = (100 * C12_WinningVotes) \div rf_model.n_trees

\* C12 witness: two of three trees voted for the class returned, 200 / 3 is not
\* an integer
C12_Witness ==
    /\ rf.pc = "done"
    /\ rf_model.n_trees = 3
    /\ C12_WinningVotes = 2
    /\ rf.result.confidence = 66

\* C13: with n_trees >= 1 the confidence RF_Predict returns is in 0..100 and
\* the vote count of the class returned is at most n_trees, also when a tree
\* returned a class label >= n_classes (a vote that is not counted).
C13_ConfidenceInRange ==
    (rf.pc = "done" /\ rf_model.n_trees >= 1) =>
        /\ rf.result.confidence \in 0..100
        /\ rf.votes[rf.result.class] <= rf_model.n_trees

\* C13 witness: a finished call of a model with one class in which a tree
\* returned class label 1 and another tree's vote was counted
C13_Witness ==
    /\ rf.pc = "done"
    /\ rf_model.n_classes = 1
    /\ \E t \in 1..Len(rf_trace.predictions) :
          rf_trace.predictions[t] >= rf_model.n_classes
    /\ rf.votes[0] = 1
    /\ rf.result.confidence \in {33, 50}

\* C14: after n Voting_AddPrediction calls on a buffer that started empty,
\* count = min(n, 3), write_idx = n mod 3, and the buffer holds the last
\* min(n, 3) pairs inserted: the j-th pair inserted is in slot (j - 1) mod 3
\* until the (j + 3)-th insertion overwrites it.
C14_RingHoldsLastThree ==
    LET n == Len(voter.inserted)
        m == IF n < VOTING_SIZE THEN n ELSE VOTING_SIZE
    IN  /\ voting_buffer.count = m
        /\ voting_buffer.write_idx = n % VOTING_SIZE
        /\ \A j \in (n - m + 1)..n :
              /\ voting_buffer.predictions[(j - 1) % VOTING_SIZE] = voter.inserted[j][1]
              /\ voting_buffer.confidences[(j - 1) % VOTING_SIZE] = voter.inserted[j][2]

\* C14 witness: four insertions, the fourth (different from the first) is in
\* slot 0
C14_Witness ==
    /\ Len(voter.inserted) = 4
    /\ voter.inserted[4] # voter.inserted[1]
    /\ voting_buffer.predictions[0] = voter.inserted[4][1]
    /\ voting_buffer.confidences[0] = voter.inserted[4][2]
    /\ voting_buffer.count = 3

\* the positions in the insertion history of the pairs still buffered
C15_Buffered ==
    LET n == Len(voter.inserted)
    IN  {j \in 1..n : j > n - VOTING_SIZE}

\* the confidences of the pairs at positions js whose class is in classes, summed
RECURSIVE C15_Sum(_, _)
C15_Sum(js, classes) ==
    IF js = {} THEN 0
    ELSE LET j == CHOOSE k \in js : TRUE
         IN  (IF voter.inserted[j][1] \in classes THEN voter.inserted[j][2] ELSE 0)
             + C15_Sum(js \ {j}, classes)

\* C15: Voting_GetMajority on a non-empty buffer returns a class whose summed
\* confidence over the buffered entries is the highest, and (the sum of all
\* buffered confidences being positive) reports
\* final_confidence = floor(100 * winner_total / sum of all).
C15_WeightedMajority ==
    (voter.result # <<>> /\ voter.inserted # <<>>) =>
        LET r == voter.result[1]
            winner_total == C15_Sum(C15_Buffered, {r.class})
            total == C15_Sum(C15_Buffered, 0..(RF_MAX_CLASSES - 1))
        IN  /\ \A c \in 0..(RF_MAX_CLASSES - 1) :
                  C15_Sum(C15_Buffered, {c}) <= winner_total
            /\ total > 0 =>
                  /\ r.written
                  /\ r.final_confidence = (100 * winner_total) \div total

\* C15 witness: a full buffer that has wrapped, classes 2 and 5 with the sums
\* 140 and 50 of 190, class 2 returned with 73
C15_Witness ==
    /\ Len(voter.inserted) = 4
    /\ voter.result # <<>>
    /\ C15_Sum(C15_Buffered, {2}) = 140
    /\ C15_Sum(C15_Buffered, {5}) = 50
    /\ voter.result[1].class = 2
    /\ voter.result[1].final_confidence = 73

\* the insertion history is the pair (c, q) three times
C16_ThreeTimes(c, q) == voter.inserted = <<(<<c, q>>), (<<c, q>>), (<<c, q>>)>>

\* C16 (as stated): the same pair (c, q) fed three times into an empty voter
\* yields final class c with final confidence q.
C16_SamePairKeepsConfidence ==
    \A c \in VoteClasses, q \in VoteConfidences :
        (C16_ThreeTimes(c, q) /\ voter.result # <<>>) =>
            /\ voter.result[1].class = c
            /\ voter.result[1].final_confidence = q

\* C16 (amended): the same pair (c, q) with q > 0 fed three times into an empty
\* voter yields final class c with final confidence 100 (3q of 3q); with q = 0
\* the class returned is 0 and final_confidence is not written.
C16_SamePairGivesFullConfidence ==
    \A c \in VoteClasses, q \in VoteConfidences :
        (C16_ThreeTimes(c, q) /\ voter.result # <<>>) =>
            IF q > 0
            THEN /\ voter.result[1].class = c
                 /\ voter.result[1].written
                 /\ voter.result[1].final_confidence = 100
            ELSE /\ voter.result[1].class = 0
                 /\ ~voter.result[1].written

\* C16 witness: (class 2, confidence 90) three times, majority asked
C16_Witness ==
    /\ C16_ThreeTimes(2, 90)
    /\ voter.result # <<>>
    /\ voter.result[1].class = 2
    /\ voter.result[1].final_confidence = 100

\* the insertion history is three pairs of pairwise different classes, each
\* with confidence 50
C17_ThreeClassesAtFifty ==
    /\ Len(voter.inserted) = 3
    /\ \A j \in 1..3 : voter.inserted[j][2] = 50
    /\ \A j, k \in 1..3 : j # k => voter.inserted[j][1] # voter.inserted[k][1]

\* C17: three different classes, each with confidence 50, fed into an empty
\* voter in any order yield one and the same winner (the lowest of the three
\* class indices) and final confidence floor(100 * 50 / 150) = 33.
C17_TieBrokenDeterministically ==
    (C17_ThreeClassesAtFifty /\ voter.result # <<>>) =>
        /\ \A j \in 1..3 : voter.result[1].class <= voter.inserted[j][1]
        /\ \E j \in 1..3 : voter.result[1].class = voter.inserted[j][1]
        /\ voter.result[1].written
        /\ voter.result[1].final_confidence = 33

\* C17 witness: the lowest class was inserted last, and won
C17_Witness ==
    /\ C17_ThreeClassesAtFifty
    /\ voter.result # <<>>
    /\ voter.inserted[3][1] = 2
    /\ voter.inserted[1][1] = 7
    /\ voter.result[1].class = 2
    /\ voter.result[1].final_confidence = 33

\* C18 (as stated): Voting_GetMajority called on an empty buffer (count = 0)
\* leaves its caller with final_confidence = 0.
C18_EmptyBufferReportsZero ==
    (voter.result # <<>> /\ voting_buffer.count = 0) =>
        voter.result[1].final_confidence = 0

\* C19: an inference cycle whose final confidence is <= 70 leaves
\* system_state.current_gesture, system_state.gesture_confidence, the servo
\* task's notification state and the servo task's locals as they were; and a
\* servo task that waits with no notification pending commands every servo
\* its current position, which stays what it was.
C19_LowConfidenceKeepsActuation ==
    [][/\ (ml_cycle'.n # ml_cycle.n /\ ml_cycle'.final_confidence <= 70) =>
             /\ system_state'.current_gesture = system_state.current_gesture
             /\ system_state'.gesture_confidence = system_state.gesture_confidence
             /\ servo_notify' = servo_notify
             /\ servo' = servo
       /\ (servo' # servo /\ servo.pc = "wait" /\ ~servo_notify.pending) =>
             /\ servo'.current_positions = servo.current_positions
             /\ servo'.angle = <<servo.current_positions>>
             /\ servo'.pc = "wait"]_vars

\* C19 witness: the servo task reached the closed fist after a notification;
\* the last inference cycle ended with a written final confidence <= 70 and
\* no notification, the gesture of the earlier cycle is still the current one,
\* and the servo task still commands the closed fist
C19_Witness ==
    /\ ml_cycle.written
    /\ ml_cycle.final_confidence <= 70
    /\ ml_cycle.gesture_class # system_state.current_gesture
    /\ system_state.current_gesture = GESTURE_CLOSED_FIST
    /\ ~servo_notify.pending
    /\ servo.pc = "wait"
    /\ servo.angle = <<Servo_GetGesturePositions(GESTURE_CLOSED_FIST)>>

\* a tree of the model declares more than 63 nodes, or a stored internal node
\* of a tree has a child index >= the tree's node count
C20_Malformed(model) ==
    \E t \in 0..(model.n_trees - 1) :
        LET tree == model.trees[t]
        IN  \/ tree.n_nodes > RF_MAX_NODES_PER_TREE
            \/ \E i \in DOMAIN tree.nodes :
                  /\ i < tree.n_nodes
                  /\ ~RF_IsLeaf(tree.nodes[i])
                  /\ \/ tree.nodes[i].left_child >= tree.n_nodes
                     \/ tree.nodes[i].right_child >= tree.n_nodes

\* C20: a load attempt on a serialized model that declares more than 63 nodes
\* for a tree, or holds a child index >= its tree's node count, ends with a
\* status other than HAL_OK (RF_ValidateModel false) and leaves the installed
\* Ensemble as it was before the attempt.
C20_MalformedModelRejected ==
    [][(loader.pc = "boot" /\ loader'.pc = "loaded"
          /\ C20_Malformed(loader'.blob[1])) =>
             /\ ~RF_ValidateModel(loader'.blob[1])
             /\ loader'.status # <<"HAL_OK">>
             /\ rf_model' = rf_model]_vars

\* C20 witness: a load attempt on a model whose counts are all within range
\* and that holds a child index >= n_nodes ended in Error_Handler, the
\* Ensemble installed before is still installed
C20_Witness ==
    /\ loader.pc = "Error_Handler"
    /\ loader.blob[1].trees[0].n_nodes <= RF_MAX_NODES_PER_TREE
    /\ C20_Malformed(loader.blob[1])
    /\ rf_model = PipelineModel
    /\ rf_model # loader.blob[1]

\* C21 (as stated): normalize_feature returns
\* floor(((value - offset) * scale + 128) / 256), value being the Q8.8 value
\* of the raw feature: the final right shift rounds half up.
C21_RoundHalfUp ==
    (unit.op = "normalize_feature" /\ unit.out # <<>>) =>
        LET value == FLOAT_TO_FIXED(unit.raw_value)
        IN  unit.out[1] =
              ((value - unit.offset) * unit.scale + FIXED_POINT_SCALE \div 2)
                  \div FIXED_POINT_SCALE

\* C22 (as stated): FIXED_TO_FLOAT(FLOAT_TO_FIXED(x)) differs from x by at most
\* one quantization step (FloatRes grid points are one step).
C22_RoundTripWithinOneStep ==
    (unit.op = "round_trip" /\ unit.out # <<>>) =>
        /\ unit.out[1] - unit.raw_value <= FloatRes
        /\ unit.raw_value - unit.out[1] <= FloatRes

\* C23: after any number of buffers or windows dropped on a full queue,
\* system_state.error_code is ERROR_NONE, Error_Handler has not been entered,
\* the acquisition task runs as soon as a buffer is ready, the DSP task's push
\* returns without waiting (the two tasks that push), and of system_state only the
\* drop counter stats.dropped_samples tells of the drops (it counts the
\* dropped buffers).
C23_FullQueueIsNotAnError ==
    (hist.emg_send_failed > 0 \/ hist.feat_send_failed > 0) =>
        /\ system_state.error_code = "ERROR_NONE"
        /\ loader.pc # "Error_Handler"
        /\ emgReadySem => ENABLED EMG_AcquisitionTask
        /\ xQueueSendReturns(featureQueue, FEATURE_QUEUE_LENGTH, FEATURE_SEND_TICKS)
        /\ system_state.stats.dropped_samples = hist.emg_send_failed
        /\ system_state.mode = SystemStateInit.mode

\* C23 witness: a buffer and a window have been dropped, both queues are full
\* and a buffer is ready
C23_Witness ==
    /\ hist.emg_send_failed > 0
    /\ hist.feat_send_failed > 0
    /\ Len(featureQueue) = FEATURE_QUEUE_LENGTH
    /\ emgDataQueue # <<>>
    /\ system_state.stats.dropped_samples > 0

\* C24: in every reachable state emgDataQueue holds at most 4 buffers and
\* featureQueue at most 2 feature vectors.
C24_QueuesBounded ==
    /\ Len(emgDataQueue) <= EMG_QUEUE_LENGTH
    /\ Len(featureQueue) <= FEATURE_QUEUE_LENGTH

\* C24 witness: both queues are full, and featureQueue has refused a vector
C24_Witness ==
    /\ Len(emgDataQueue) = EMG_QUEUE_LENGTH
    /\ Len(featureQueue) = FEATURE_QUEUE_LENGTH
    /\ hist.feat_send_failed > 0

\* C25: an inference cycle starts only by receiving the feature vector at the
\* head of featureQueue; the pair recorded in the voting buffer is RF_Predict
\* of that vector; the majority is that of the buffer with the pair recorded;
\* a notification, if any, carries that majority's class; and the voting
\* buffer and the notification count change in no other step.
C25_CycleOrder ==
    [][/\ ml_cycle'.n # ml_cycle.n =>
             /\ featureQueue # <<>>
             /\ featureQueue' = Tail(featureQueue)
             /\ ml_cycle'.features = <<Head(featureQueue)>>
             /\ LET predicted == RF_Predict(rf_model, Head(featureQueue).values)
                    majority == Voting_GetMajority(voting_buffer')
                IN  /\ ml_cycle'.prediction = predicted.class
                    /\ ml_cycle'.confidence = predicted.confidence
                    /\ voting_buffer' = Voting_AddPrediction(voting_buffer,
                                            predicted.class, predicted.confidence)
                    /\ ml_cycle'.gesture_class = majority.class
                    /\ ml_cycle'.written = majority.written
                    /\ majority.written =>
                          ml_cycle'.final_confidence = majority.final_confidence
                    /\ servo_notify'.sent # servo_notify.sent =>
                          /\ servo_notify'.pending
                          /\ servo_notify'.value = majority.class
       /\ (voting_buffer' # voting_buffer \/ servo_notify'.sent # servo_notify.sent)
             => ml_cycle'.n = ml_cycle.n + 1]_vars

\* C25 witness: a cycle that classified its vector as class 1 and, the two
\* earlier votes outweighing it, notified the servo task of class 0
C25_Witness ==
    /\ ml_cycle.n >= 3
    /\ ml_cycle.prediction = 1
    /\ ml_cycle.gesture_class = 0
    /\ ml_cycle.notified
    /\ servo_notify.pending
    /\ servo_notify.value = 0

\* the writer C26 gives each field of system_state
C26_Owner(field) ==
    CASE field \in {"stats.dropped_samples", "stats.emg_sample_rate"}
            -> "EMG_AcquisitionTask"
      [] field = "stats.dsp_processing_time" -> "DSP_ProcessingTask"
      [] field \in {"stats.ml_inference_time", "stats.total_predictions",
                    "current_gesture", "gesture_confidence"} -> "ML_InferenceTask"
      [] field \in {"mode", "debug_enabled", "battery_voltage", "temperature"}
            -> "System_MonitorTask"
      [] OTHER -> "none"

C26_Fields ==
    {"stats.dropped_samples", "stats.emg_sample_rate", "stats.dsp_processing_time",
     "stats.ml_inference_time", "stats.total_predictions", "current_gesture",
     "gesture_confidence", "mode", "debug_enabled", "battery_voltage",
     "temperature", "error_code"}

C26_Value(state, field) ==
    CASE field = "stats.dropped_samples" -> state.stats.dropped_samples
      [] field = "stats.emg_sample_rate" -> state.stats.emg_sample_rate
      [] field = "stats.dsp_processing_time" -> state.stats.dsp_processing_time
      [] field = "stats.ml_inference_time" -> state.stats.ml_inference_time
      [] field = "stats.total_predictions" -> state.stats.total_predictions
      [] field = "current_gesture" -> <<state.current_gesture>>
      [] field = "gesture_confidence" -> <<state.gesture_confidence>>
      [] field = "mode" -> state.mode
      [] field = "debug_enabled" -> state.debug_enabled
      [] field = "battery_voltage" -> state.battery_voltage
      [] field = "temperature" -> state.temperature
      [] field = "error_code" -> state.error_code

C27_EnsembleReadOnly ==
    [][loader.pc # "boot" => rf_model' = rf_model]_vars

\* C27 witness: the Ensemble of three trees was loaded in place of the one
\* installed before, three inference cycles have run on it, and it is still
\* the one loaded
C27_Witness ==
    /\ loader.pc = "initialized"
    /\ rf_model # PipelineModel
    /\ rf_model = loader.blob[1]
    /\ ml_cycle.n >= 3
    /\ ml_cycle.notified

\* C28: every spectral bin is counted in exactly one of the four bands (a
\* bin centred on a band edge once), and the four band powers sum to the total
\* spectral power.
C28_BandsPartitionSpectrum ==
    (unit.op = "band_power" /\ unit.out # <<>>) =>
        /\ \A k \in StftBins :
              Cardinality({b \in 1..Len(Bands) :
                              InBand(k, Bands[b][1], Bands[b][2])}) = 1
        /\ unit.out[1][1] + unit.out[1][2] + unit.out[1][3] + unit.out[1][4]
              = np_sum(unit.psd, StftBins)

\* C29: the feature vector produced for one window over the 4 channels has at
\* most as many features as the 30 places of Feature_Vector_t.values.
C29_FeatureCountWithinCapacity ==
    (unit.op = "extract_features" /\ unit.out # <<>>) =>
        Len(unit.out[1]) <= FEATURE_CAPACITY

\* C30: each acquired sample passes through the Filter Bank exactly once: the
\* samples shared by two consecutive windows are not filtered again when the
\* later window is processed.
C30_SamplesFilteredOnce ==
    hist.prev_window # <<>> =>
        {RowSample(hist.last_window[r]) : r \in DSP_FilteredRows}
            \cap {RowSample(hist.prev_window[r]) : r \in DSP_FilteredRows} = {}

\* reference evaluation of a tree from node i: a node whose node_type is 128 or
\* more is a leaf of class node_type - 128, any other node sends to its left
\* subtree the vectors with features[feature_idx] <= threshold and to its right
\* subtree the others
RECURSIVE C31_Reference(_, _, _, _)
C31_Reference(tree, features, i, fuel) ==
    LET node == tree.nodes[i]
    IN  IF node.node_type >= 128 THEN node.node_type - 128
        ELSE IF fuel = 0 THEN 0 - 1
        ELSE IF features[node.feature_idx] > node.threshold
             THEN C31_Reference(tree, features, node.right_child, fuel - 1)
             ELSE C31_Reference(tree, features, node.left_child, fuel - 1)

\* C31: on a valid tree, the value RF_TreePredict returns is the class of the
\* leaf that the reference evaluation of the tree reaches from root_idx.
C31_TreePredictIsReference ==
    C4_ValidEnsemble(rf_model) =>
        \A t \in 1..Len(rf_trace.predictions) :
            rf_trace.predictions[t] =
                C31_Reference(rf_model.trees[t - 1],
                              RF_Normalize(rf_model, rf_input),
                              rf_model.trees[t - 1].root_idx,
                              rf_model.trees[t - 1].n_nodes)

\* C31 witness: a finished call on the pipeline's Ensemble with the feature
\* equal to the threshold of the third tree's root: the first two trees went
\* right at the root and left below it (class 1), the third went left (class 0)
C31_Witness ==
    /\ rf.pc = "done"
    /\ C4_ValidEnsemble(rf_model)
    /\ rf_model.n_trees >= 3
    /\ rf_input[0] = Float(3)
    /\ rf_trace.predictions[1] = 1
    /\ rf_trace.predictions[2] = 1
    /\ rf_trace.predictions[3] = 0

\* C32: fixed_mul(a, b) is the 16-bit truncation of floor(a * b / 256), and
\* when the exact product fits the Q8.8 range the result is less than one
\* quantization step below it, never above.
C32_MultiplyIsFlooredProduct ==
    (unit.op = "fixed_mul" /\ unit.out # <<>>) =>
        LET product == unit.a * unit.b
            result == unit.out[1]
            fits == /\ product >= (0 - Pow2(15)) * FIXED_POINT_SCALE
                    /\ product < Pow2(15) * FIXED_POINT_SCALE
        IN  /\ \E q \in {result + w * Pow2(16) : w \in (0 - 64)..64} :
                  /\ q * FIXED_POINT_SCALE <= product
                  /\ product < (q + 1) * FIXED_POINT_SCALE
            /\ result \in (0 - Pow2(15))..(Pow2(15) - 1)
            /\ fits => /\ result * FIXED_POINT_SCALE <= product
                       /\ product - result * FIXED_POINT_SCALE < FIXED_POINT_SCALE

\* C32 witness: 2.5 * 1.5 (640 and 384) gave 3.75 (960)
C32_Witness ==
    /\ unit.op = "fixed_mul"
    /\ unit.a = 640 /\ unit.b = 384
    /\ unit.out = <<960>>

\* the last initialization call of main() failed
C33_CallFailed == loader.status \in {<<"HAL_ERROR">>, <<"NULL">>}

\* C33: when an initialization call of main() fails, main() is in
\* Error_Handler from then on: nothing changes in the halted state, and a step
\* of acquisition, DSP, inference or servo control is taken only under the
\* scheduler, which is started only when no call failed.
C33_FailedInitHalts ==
    [][/\ (C33_CallFailed /\ loader.pc # "loaded") => loader.pc = "Error_Handler"
       /\ C33_CallFailed => loader'.pc = "Error_Handler"
       /\ loader.pc = "Error_Handler" => vars' = vars
       /\ <<acqVars, dspVars, mlVars, system_state>>' # <<acqVars, dspVars, mlVars, system_state>>
             => (loader.pc = "scheduler" /\ ~C33_CallFailed)]_vars

\* C33 witness: the halted state, entered from a failed xQueueCreate after a
\* successful load, with no task step taken
C33_Witness ==
    /\ loader.pc = "Error_Handler"
    /\ loader.status = <<"NULL">>
    /\ loader.blob # <<>>
    /\ hist = HistInit

\* the buffers EMG_AcquisitionTask has read are those DSP_ProcessingTask has
\* received, those waiting in emgDataQueue and those counted as dropped
C34_Conserved ==
    hist.emg_sent = hist.emg_received + Len(emgDataQueue)
                        + system_state.stats.dropped_samples

\* C34: buffers read = buffers received by DSP_ProcessingTask + buffers in
\* emgDataQueue + dropped_samples in every state; dropped_samples grows by one
\* in a step of EMG_AcquisitionTask whose buffer the queue did not take, and
\* changes in no other step.
C34_DropsAccounted ==
    [][/\ C34_Conserved
       /\ C34_Conserved'
       /\ system_state'.stats.dropped_samples - system_state.stats.dropped_samples =
             (IF /\ hist'.emg_sent = hist.emg_sent + 1
                 /\ emgDataQueue' = emgDataQueue
              THEN 1 ELSE 0)]_vars

\* C34 witness: a buffer has been dropped, another has been received by
\* DSP_ProcessingTask, and buffers are waiting
C34_Witness ==
    /\ system_state.stats.dropped_samples >= 1
    /\ hist.emg_received >= 1
    /\ emgDataQueue # <<>>
    /\ hist.emg_sent >= 6

\* C35: every write into window_buffer is at a row below 256, and the index
\* is 128 right after a window is emitted (between two iterations of the task
\* it is below 256 as well).
C35_WindowIndexInRange ==
    /\ ~hist.write_oob
    /\ window_idx < WINDOW_SIZE
    /\ hist.windows > 0 => hist.idx_after_window = <<128>>
    /\ (hist.windows > 0 /\ hist.dsp_samples % 128 = 0) => window_idx = 128

\* C35 witness: a buffer of 255 samples and one of 256 have been received,
\* with two windows emitted within one buffer
C35_Witness ==
    /\ hist.dsp_samples = 255 + 256
    /\ hist.windows = 2
    /\ window_idx = 255
    /\ emgDataQueue = <<>>

\* the window numbers of the vectors waiting in featureQueue
C36_Waiting == {featureQueue[i].window_no : i \in 1..Len(featureQueue)}

\* the window number of the vector classified last (0: none yet)
C36_Classified(cycle) == IF cycle.n = 0 THEN 0 ELSE cycle.features[1].window_no

\* C36: under fair scheduling every vector accepted into featureQueue is
\* eventually classified; a cycle of ML_InferenceTask takes the oldest waiting
\* vector, removes it, and votes once; the windows classified are in the order
\* of their completion, none twice.
C36_EveryVectorClassifiedInOrder ==
    /\ \A k \in 1..(MaxVectors + 1) :
          (k \in C36_Waiting) ~> (C36_Classified(ml_cycle) = k)
    /\ [][/\ \A i \in 1..Len(featureQueue) :
                /\ featureQueue[i].window_no > C36_Classified(ml_cycle)
                /\ i > 1 => featureQueue[i].window_no > featureQueue[i - 1].window_no
          /\ ml_cycle'.n # ml_cycle.n =>
                /\ ml_cycle'.n = ml_cycle.n + 1
                /\ C36_Classified(ml_cycle') > C36_Classified(ml_cycle)
                /\ \A k \in C36_Waiting : C36_Classified(ml_cycle') <= k
                /\ C36_Waiting' = C36_Waiting \ {C36_Classified(ml_cycle')}
                /\ Len(voter'.inserted) = Len(voter.inserted) + 1]_vars

\* C36 witness: the second of two waiting vectors has been classified, after
\* the first
C36_Witness ==
    /\ ml_cycle.n = 2
    /\ C36_Classified(ml_cycle) = 2
    /\ featureQueue = <<>>
    /\ hist.windows = 2

\* C37: in every cycle of ML_InferenceTask the final_confidence compared with
\* the threshold was written by that cycle's Voting_GetMajority call, whatever
\* the voting buffer holds.
C37_GateReadsWrittenConfidence ==
    ml_cycle.n > 0 => ml_cycle.written

\* C38: every prediction in the voting buffer, with which Voting_GetMajority
\* indexes weighted_votes[29], is a class RF_Predict returned: it is below
\* n_classes, which is at most 29.
C38_BufferedClassesInRange ==
    /\ rf_model.n_classes <= RF_MAX_CLASSES
    /\ \A i \in 0..(voting_buffer.count - 1) :
          /\ voting_buffer.predictions[i] < rf_model.n_classes
          /\ voting_buffer.predictions[i] < RF_MAX_CLASSES
    /\ ml_cycle.n > 0 => ml_cycle.prediction < rf_model.n_classes

\* C38 witness: the buffer is full and has wrapped; the last cycle classified
\* a window for which every tree returned label 2 (not below n_classes = 2):
\* no vote was counted and the class buffered is 0
C38_Witness ==
    /\ ml_cycle.n = 4
    /\ voting_buffer.count = VOTING_SIZE
    /\ emg_level = 9
    /\ featureQueue = <<>>
    /\ ml_cycle.prediction = 0
    /\ ml_cycle.confidence = 0

\* C39 (as stated): a notification sent while the servo task is waiting is
\* always acted upon (none is overwritten, unreceived, by the notification of
\* another gesture).
C39_WaitingNotificationActedUpon ==
    servo_notify.lost_waiting = 0

\* C39 (amended): the servo task starts a transition only on a pending
\* notification, and its target is the gesture notified last, whatever was
\* notified before it; the target does not change during a transition; and at
\* its next step a waiting servo task acts on the pending notification, which is
\* the last one sent.
C39_LatestGestureTargeted ==
    [][/\ (servo.pc = "wait" /\ servo'.pc = "move") =>
              /\ servo_notify.pending
              /\ servo'.gesture_class = servo_notify.last
              /\ servo'.target_positions =
                    <<Servo_GetGesturePositions(servo_notify.last[1])>>
              /\ ~servo_notify'.pending
       /\ (servo.pc = "move" /\ servo'.pc = "move") =>
              /\ servo'.gesture_class = servo.gesture_class
              /\ servo'.target_positions = servo.target_positions
       /\ (servo.pc = "wait" /\ servo' # servo /\ servo_notify.pending) =>
              servo'.pc = "move"]_vars

\* C39 witness: a gesture notified during a transition was overwritten by the
\* notification of another one, and the next transition has started on the
\* latter
C39_Witness ==
    /\ servo_notify.sent = 3
    /\ servo_notify.lost_moving = 1
    /\ servo_notify.lost_waiting = 0
    /\ ~servo_notify.pending
    /\ servo.pc = "move"
    /\ servo.step = 0
    /\ servo.gesture_class = <<GESTURE_CLOSED_FIST>>

\* C40: the (current_gesture, gesture_confidence) pair that SYS:INFO? prints
\* comes from one and the same vote.
C40_InfoPairFromOneVote ==
    monitor.printed # <<>> =>
        monitor.printed[1].gesture_vote = monitor.printed[1].confidence_vote

====
